---- MODULE Spec2Model ----
(***************************************************************************)
(* barbershop: the speed-sweep search driver (trackIdentifier, audio.go)   *)
(* run by the server's job loop (server.doJob), the Shazam signature codec, *)
(* sample collection and peak extraction (shazam/signature.go), the        *)
(* identification client (Identify, models.go) and the opening of track    *)
(* files (openStreamer, audio.go).                                         *)
(*                                                                         *)
(* Ratios are kept as integers, in hundredths (1.20 is 120); offsets are   *)
(* whole seconds.  A Go pointer that may be nil is a sequence of length    *)
(* 0 (nil) or 1.                                                           *)
(***************************************************************************)
EXTENDS Integers, Sequences, FiniteSets, Bags, TLC

VARIABLES
    params,      \* trackIdentifier.params: the remaining probes, head first
    results,     \* trackIdentifier.results: the log of found results
    sample,      \* trackIdentifier.sample: <<>> (nil) or <<identifyResult>>
    nextParams,  \* what the last handleResult call returned: <<>> (nil) or <<p>>
    calls,       \* identifyPath calls made by the loop so far
    pc,          \* doJob's position: "identifying", "done" or "error"
    sig,         \* the Signature handed to encode
    buf,         \* the bytes encode returned
    blob,        \* the bytes handed to decode
    out,         \* decode's outcome: its error and the receiving Signature
    cpc,         \* the codec run's position
    now,         \* the clock, in whole seconds
    rl,          \* throttle's rate.Limiter: its tokens and the time of its last update
    callers,     \* the goroutines calling Identify: position, request body, result
    attempts,    \* the http.DefaultClient.Do calls made so far, in order
    samples,     \* the caller's sample slice handed to ComputeSignature
    returned,    \* what the ComputeSignature calls returned, in order
    numSpreadFFTsDone,  \* ComputeSignature's count of finished hops
    source,      \* CollectSample's arguments and the frames its streamer holds
    delivered,   \* the counts n the streamer's Stream calls returned, in order
    rem,         \* CollectSample's rem
    mono,        \* CollectSample's mono
    kpc,         \* CollectSample's position
    jobQueue,    \* server.jobQueue: the track files of the queued jobs
    jobs,        \* the jobs doJob has finished, with their Error
    process,     \* "running", or "exited" after log.Fatal
    linked,      \* the link lookups finished so far, by the server and by the CLI
    tracks,      \* identifyAlbumModel.tracks: each track's status and id
    trackIndex,  \* identifyAlbumModel.trackIndex, counted from 1
    merr,        \* identifyAlbumModel.err is set
    msgs,        \* the commands running and the messages not yet handled by Update
    msg,         \* the message Update was last called with, and what Update did
    bb,          \* the boombox: bb.buf is set, bb.silent
    apc,         \* the album program: "running", "quit" or the panic that ended it
    resampleRatio,  \* bb.buf.r.Ratio(), in thousandths
    changers,    \* the goroutines in boomboxChangeSpeed: position and target
    mu,          \* server.mu: "" when free, else the goroutine holding it
    jobsByID,    \* server.jobs: the identifyJob of every job id handed out
    jobIDQueue,  \* server.jobQueue: the ids waiting for loopJobs
    uriCache,    \* server.uriCache: the URIs resolved so far
    handlers,    \* the goroutines serving HTTP requests: position, URI, job
    worker,      \* the loopJobs goroutine: position, job, pending setState
    enqueued,    \* every URI whose job id was appended to jobQueue, in order
    spectrum,    \* the bin doPeakRecognition looks at and the values around it
    recognized   \* what doPeakRecognition did with the bin

driverVars == <<params, results, sample, nextParams, calls, pc>>

codecVars == <<sig, buf, blob, out, cpc>>

clientVars == <<now, rl, callers, attempts>>

extractVars == <<samples, returned, numSpreadFFTsDone>>

collectVars == <<source, delivered, rem, mono, kpc>>

serverVars == <<jobQueue, jobs, process>>

linkVars == <<linked>>

albumVars == <<tracks, trackIndex, merr, msgs, msg, bb, apc>>

\* the state of the front ends: the CLI models and the HTTP handlers
boomVars == <<resampleRatio, changers>>

handlerVars == <<mu, jobsByID, jobIDQueue, uriCache, handlers, worker, enqueued>>

interpVars == <<spectrum, recognized>>

frontVars == <<linkVars, albumVars, boomVars, handlerVars, interpVars>>

vars ==
    <<params, results, sample, nextParams, calls, pc, sig, buf, blob, out, cpc,
      now, rl, callers, attempts, samples, returned, numSpreadFFTsDone,
      source, delivered, rem, mono, kpc, jobQueue, jobs, process,
      linked, tracks, trackIndex, merr, msgs, msg, bb, apc,
      resampleRatio, changers,
      mu, jobsByID, jobIDQueue, uriCache, handlers, worker, enqueued,
      spectrum, recognized>>

(***************************************************************************)
(* Bounds of the model.                                                    *)
(***************************************************************************)
\* identifyPath calls the loop may make; the loop itself stops far earlier
MaxCalls == 50
\* found results the identification service may return for one track
MaxFound == 4

\* the (artist, title) pairs the service may answer with; they share the artist
Tracks == {<<"a1", "t1">>, <<"a1", "t2">>}

\* peaks of a signature handed to the codec
MaxPeaks == 2
\* peaks of a signature whose encoding gets a bit flipped
MaxFlipPeaks == 1

\* the signatures handed to the codec: the five rates, sample counts up to
\* the largest TLC can hold, passes that grow by these gaps
SampleCounts == {0, 2147483647}
CodecBands == {0, 2, 4}
\* a peak to append: how far its pass lies after the band's last one, and
\* its 16-bit magnitude and bin
PeakSteps ==
    { [gap |-> 0, magnitude |-> 255, bin |-> 640],
      [gap |-> 254, magnitude |-> 65535, bin |-> 65535],
      [gap |-> 255, magnitude |-> 0, bin |-> 64959],
      [gap |-> 70000, magnitude |-> 6144, bin |-> 255] }
FlipRates == {16000, 44100}
FlipBands == {0, 4}
FlipGaps == {0, 255}

\* the codes the five rate bits of a header can carry
RateCodes == 0..31
\* tag words put in place of a block's tag: 0x60030040, 0x60030044,
\* 0x60030045, 0x6003003f, 0 and 0xffffffff
BlockTags ==
    {<<64, 0, 3, 96>>, <<68, 0, 3, 96>>, <<69, 0, 3, 96>>, <<63, 0, 3, 96>>,
     <<0, 0, 0, 0>>, <<255, 255, 255, 255>>}
\* sample rates outside the five of convertSampleRate
OtherRates == {0, 3, 22050, 48000}

\* the goroutines that call Identify
Callers == {1, 2}
\* Identify calls one goroutine makes
MaxIdentify == 1
\* http.DefaultClient.Do calls in one run
MaxAttempts == 3
\* the last second of the clock
MaxTime == 6
\* what the service or the transport answers to an attempt
Answers == {"200", "429", "500", "error"}

\* jobs the server is given
MaxJobs == 3
\* the track file of a job: missing or unreadable, shorter than 512 bytes,
\* of a type openStreamer does not know, a wave file its decoder rejects
\* and a sound wave file
Files == {"missing", "short", "text", "badwave", "wave"}

\* frames the streamer handed to CollectSample holds
MaxFrames == 6
\* CollectSample's sample rate, and its offset and duration in whole seconds
CollectRates == {1, 2, 3}
CollectOffsets == {0, 1, 2}
CollectDurations == {0, 1, 2}

\* ComputeSignature calls on one slice
MaxRuns == 2
\* lengths of the caller's slice: none, one hop exactly, one and two hops
\* and a sample
SliceLens == {0, 128, 129, 257}
\* float64 samples m * 2^e: 0, 2^-16, -3 * 2^-17 and 0.5
SampleValues ==
    {[m |-> 0, e |-> 0], [m |-> 1, e |-> -16], [m |-> -3, e |-> -17], [m |-> 1, e |-> -1]}

\* peaks the recognition of one hop may find
MaxPerHop == 2
\* lengths of the samples whose peaks are recognized: none, short of one
\* hop, one hop exactly, one hop and a sample, 46 hops less a sample, 46
\* hops exactly, and a sample and a hop more
ExtractLens == {0, 100, 128, 129, 5887, 5888, 5889, 6017}
\* what the recognition may find at a bin: the bin, the interpolation's
\* variation and the magnitude
PeakFinds ==
    { [bin |-> 10, variation |-> -32, magnitude |-> 0],
      [bin |-> 32, variation |-> -1, magnitude |-> 255],
      [bin |-> 32, variation |-> 0, magnitude |-> 6144],
      [bin |-> 67, variation |-> 5, magnitude |-> 6144],
      [bin |-> 448, variation |-> 0, magnitude |-> 6144],
      [bin |-> 704, variation |-> 0, magnitude |-> 6144],
      [bin |-> 704, variation |-> 8, magnitude |-> 12000],
      [bin |-> 704, variation |-> 9, magnitude |-> 6144],
      [bin |-> 1014, variation |-> 32, magnitude |-> 65535] }

(***************************************************************************)
(* newTrackIdentifier                                                      *)
(***************************************************************************)
Ratios == <<120, 130, 110, 125, 115, 140, 150, 90, 80, 160, 170, 180, 190, 200, 100>>
Offsets == <<24, 48, 72>>

RECURSIVE appendOffsets(_, _, _)
\* the inner loop: append (speedup, offset) for the offsets from index j on
appendOffsets(ps, speedup, j) ==
    IF j > Len(Offsets) THEN ps
    ELSE appendOffsets(Append(ps, [ratio |-> speedup, offset |-> Offsets[j]]), speedup, j + 1)

RECURSIVE appendRatios(_, _)
\* the outer loop over the speedups from index i on
appendRatios(ps, i) ==
    IF i > Len(Ratios) THEN ps
    ELSE appendRatios(appendOffsets(ps, Ratios[i], 1), i + 1)

RECURSIVE offsetMajorFrom(_, _, _)
offsetMajorFrom(ps, j, i) ==
    IF j > Len(Offsets) THEN ps
    ELSE IF i > Len(Ratios) THEN offsetMajorFrom(ps, j + 1, 1)
    ELSE offsetMajorFrom(Append(ps, [ratio |-> Ratios[i], offset |-> Offsets[j]]), j, i + 1)

\* newTrackIdentifier with the two loops swapped
newTrackIdentifierOffsetMajor == offsetMajorFrom(<<>>, 1, 1)

newTrackIdentifier == appendRatios(<<>>, 1)

currentParams(ps) == ps[1]

(***************************************************************************)
(* handleResult                                                            *)
(***************************************************************************)
RECURSIVE skipRatio(_, _)
\* the not-found loop: drop the head while the entry after it has the ratio
skipRatio(ps, ratio) ==
    IF Len(ps) > 2 /\ ps[2].ratio = ratio THEN skipRatio(Tail(ps), ratio) ELSE ps

sameTrackArtistOnly(res, r) == res.res.Artist = r.res.Artist

sameTrack(res, r) == res.res.Artist = r.res.Artist /\ res.res.Title = r.res.Title

RECURSIVE countHits(_, _, _)
\* the hits loop over the log, from index i on
countHits(log, r, i) ==
    IF i > Len(log) THEN 0
    ELSE (IF sameTrack(log[i], r) THEN 1 ELSE 0) + countHits(log, r, i + 1)

isMatch(hits) == hits = 3

advanceRetryLast(ps) ==
    IF Len(ps) = 1 THEN [params |-> ps, nextParams |-> <<ps[1]>>]
    ELSE [params |-> Tail(ps), nextParams |-> <<Tail(ps)[1]>>]

advanceStopEarly(ps) ==
    IF Len(ps) <= 2 THEN [params |-> ps, nextParams |-> <<>>]
    ELSE [params |-> Tail(ps), nextParams |-> <<Tail(ps)[1]>>]

advanceKeepHead(ps) ==
    IF Len(ps) = 1 THEN [params |-> ps, nextParams |-> <<>>]
    ELSE [params |-> ps, nextParams |-> <<ps[1]>>]

\* "have we exhausted all params?": the tail of handleResult
advance(ps) ==
    IF Len(ps) = 1 THEN [params |-> ps, nextParams |-> <<>>]
    ELSE [params |-> Tail(ps), nextParams |-> <<Tail(ps)[1]>>]

chosenFirstHit(log, r) == <<log[CHOOSE i \in 1..Len(log) : sameTrack(log[i], r)]>>

\* id.sample = &r
chosen(log, r) == <<r>>

\* handleResult with the skip of the not-found branch applied to found
\* results too
handleResultSkipOnFound(id, r) ==
    IF ~r.res.Found
    THEN LET a == advance(skipRatio(id.params, r.params.ratio))
         IN  [params |-> a.params, results |-> id.results, sample |-> id.sample,
              nextParams |-> a.nextParams]
    ELSE LET log == Append(id.results, r)
         IN  IF isMatch(countHits(log, r, 1))
             THEN [params |-> id.params, results |-> log, sample |-> chosen(log, r),
                   nextParams |-> <<>>]
             ELSE LET a == advance(skipRatio(id.params, r.params.ratio))
                  IN  [params |-> a.params, results |-> log, sample |-> id.sample,
                       nextParams |-> a.nextParams]

\* handleResult(r) on the identifier id: the identifier afterwards and the
\* returned pointer
handleResult(id, r) ==
    IF ~r.res.Found
    THEN LET a == advance(skipRatio(id.params, r.params.ratio))
         IN  [params |-> a.params, results |-> id.results, sample |-> id.sample,
              nextParams |-> a.nextParams]
    ELSE LET log == Append(id.results, r)
         IN  IF isMatch(countHits(log, r, 1))
             THEN [params |-> id.params, results |-> log, sample |-> chosen(log, r),
                   nextParams |-> <<>>]
             ELSE LET a == advance(id.params)
                  IN  [params |-> a.params, results |-> log, sample |-> id.sample,
                       nextParams |-> a.nextParams]

(***************************************************************************)
(* 32-bit words.  TLC's integers are 32-bit signed, so a uint32 is kept as *)
(* its four little-endian bytes <<b0, b1, b2, b3>>, which is also how the  *)
(* codec lays it out.                                                      *)
(***************************************************************************)
RECURSIVE xorBits(_, _, _)
\* bitwise exclusive or of the low n bits of a and b
xorBits(a, b, n) ==
    IF n = 0 THEN 0
    ELSE ((a + b) % 2) + 2 * xorBits(a \div 2, b \div 2, n - 1)

xorNibble == [a \in 0..15 |-> [b \in 0..15 |-> xorBits(a, b, 4)]]

xor8(a, b) == 16 * xorNibble[a \div 16][b \div 16] + xorNibble[a % 16][b % 16]

xor32(v, w) == <<xor8(v[1], w[1]), xor8(v[2], w[2]), xor8(v[3], w[3]), xor8(v[4], w[4])>>

\* binary.LittleEndian.PutUint32 of uint32(u), for an int 0 <= u < 2^31
le32(u) == <<u % 256, (u \div 256) % 256, (u \div 65536) % 256, (u \div 16777216) % 256>>

\* binary.Write of uint16(u)
le16(u) == <<u % 256, (u \div 256) % 256>>

\* v + w modulo 2^32
add32(v, w) ==
    LET s1 == v[1] + w[1]
        s2 == v[2] + w[2] + (s1 \div 256)
        s3 == v[3] + w[3] + (s2 \div 256)
        s4 == v[4] + w[4] + (s3 \div 256)
    IN  <<s1 % 256, s2 % 256, s3 % 256, s4 % 256>>

\* v - w modulo 2^32
sub32(v, w) ==
    LET d1 == v[1] - w[1]
        d2 == v[2] - w[2] - (IF d1 < 0 THEN 1 ELSE 0)
        d3 == v[3] - w[3] - (IF d2 < 0 THEN 1 ELSE 0)
        d4 == v[4] - w[4] - (IF d3 < 0 THEN 1 ELSE 0)
    IN  <<d1 % 256, d2 % 256, d3 % 256, d4 % 256>>

\* the word as an int; words of 2^31 and above are all read as 2^31 - 1,
\* which is beyond every length and index the codec compares them with
int32(w) ==
    IF w[4] >= 128 THEN 2147483647
    ELSE w[1] + 256 * w[2] + 65536 * w[3] + 16777216 * w[4]

\* binary.LittleEndian.Uint32 of the four bytes of bs after the first off
u32at(bs, off) == <<bs[off + 1], bs[off + 2], bs[off + 3], bs[off + 4]>>

(***************************************************************************)
(* hash/crc32: ChecksumIEEE                                                *)
(***************************************************************************)
\* the reversed IEEE polynomial 0xedb88320
crcPoly == <<32, 131, 184, 237>>

shr1(w) ==
    <<(w[1] \div 2) + 128 * (w[2] % 2), (w[2] \div 2) + 128 * (w[3] % 2),
      (w[3] \div 2) + 128 * (w[4] % 2), w[4] \div 2>>

RECURSIVE crcEntry(_, _)
crcEntry(c, n) ==
    IF n = 0 THEN c
    ELSE crcEntry(IF c[1] % 2 = 1 THEN xor32(shr1(c), crcPoly) ELSE shr1(c), n - 1)

crcTable == [i \in 0..255 |-> crcEntry(<<i, 0, 0, 0>>, 8)]

RECURSIVE crcUpdate(_, _, _)
\* the table-driven update loop from byte i on: crc = tab[byte(crc)^v] ^ (crc >> 8),
\* four bytes to a step where four are left. The test on c makes TLC compute
\* each step before it takes the next one.
crcUpdate(crc, bs, i) ==
    LET simple(at, k) == xor32(crcTable[xor8(at[1], bs[k])], <<at[2], at[3], at[4], 0>>)
    IN  IF i > Len(bs) THEN crc
        ELSE IF i + 3 <= Len(bs)
        THEN LET c1 == simple(crc, i)
                 c2 == simple(c1, i + 1)
                 c3 == simple(c2, i + 2)
                 c == simple(c3, i + 3)
             IN  IF c[1] >= 0 THEN crcUpdate(c, bs, i + 4) ELSE crc
        ELSE LET c == simple(crc, i)
             IN  IF c[1] >= 0 THEN crcUpdate(c, bs, i + 1) ELSE crc

ChecksumIEEE(bs) ==
    LET c == crcUpdate(<<255, 255, 255, 255>>, bs, 1)
    IN  <<255 - c[1], 255 - c[2], 255 - c[3], 255 - c[4]>>

(***************************************************************************)
(* The signature codec                                                     *)
(***************************************************************************)
magic1 == <<128, 37, 254, 202>>     \* 0xcafe2580
magic2 == <<0, 156, 17, 148>>       \* 0x94119c00
magic3 == <<0, 0, 124, 0>>          \* 0x007c0000
magic4 == <<0, 0, 0, 64>>           \* 0x40000000
\* 0x60030040 + band
bandTag(band) == <<64 + band, 0, 3, 96>>
zero32 == <<0, 0, 0, 0>>

\* the two-way map of convertSampleRate; a missing key gives 0
convertSampleRate(x) ==
    CASE x = 1 -> 8000
      [] x = 2 -> 11025
      [] x = 3 -> 16000
      [] x = 4 -> 32000
      [] x = 5 -> 44100
      [] x = 8000 -> 1
      [] x = 11025 -> 2
      [] x = 16000 -> 3
      [] x = 32000 -> 4
      [] x = 44100 -> 5
      [] OTHER -> 0

\* uint32(c) << 27: the low five bits of c become the top five of the word
shl27(c) == <<0, 0, 0, (c % 32) * 8>>

\* w >> 27
shr27(w) == w[4] \div 8

\* uint32(float64(sampleRate) * 0.24); on the five rates and on 0 the float
\* product is the exact integer
rateBias(sampleRate) == le32((sampleRate * 24) \div 100)

emptySignature == [sampleRate |-> 0, numSamples |-> 0, peaksByBand |-> <<<<>>, <<>>, <<>>, <<>>, <<>>>>]

markerNeededAbove(gap) == gap > 255

\* "peak.pass-pass >= 255"
markerNeeded(gap) == gap >= 255

RECURSIVE encodePeaks(_, _, _, _)
\* the peak loop of encode from peak i on; pass is the running pass
encodePeaks(peaks, i, pass, peakBuf) ==
    IF i > Len(peaks) THEN peakBuf
    ELSE LET peak == peaks[i]
             marked == markerNeeded(peak.pass - pass)
             pass1 == IF marked THEN peak.pass ELSE pass
             b1 == IF marked THEN peakBuf \o <<255>> \o le32(peak.pass) ELSE peakBuf
             b2 == b1 \o <<(peak.pass - pass1) % 256>> \o le16(peak.magnitude % 65536)
                      \o le16(peak.bin % 65536)
         IN  encodePeaks(peaks, i + 1, peak.pass, b2)

RECURSIVE pad4(_)
pad4(bs) == IF Len(bs) % 4 # 0 THEN pad4(Append(bs, 0)) ELSE bs

RECURSIVE encodeBands(_, _, _)
\* the band loop of encode from band index band (0-based) on
encodeBands(s, band, bs) ==
    IF band > 4 THEN bs
    ELSE LET peaks == s.peaksByBand[band + 1]
         IN  IF Len(peaks) = 0 THEN encodeBands(s, band + 1, bs)
             ELSE LET peakBuf == encodePeaks(peaks, 1, 0, <<>>)
                  IN  encodeBands(s, band + 1,
                          bs \o bandTag(band) \o le32(Len(peakBuf)) \o pad4(peakBuf))

\* binary.LittleEndian.PutUint32(bs[off:off+4], w)
putUint32(bs, off, w) ==
    [i \in 1..Len(bs) |-> IF i > off /\ i <= off + 4 THEN w[i - off] ELSE bs[i]]

encodeHeader(s) ==
    magic1 \o zero32 \o zero32 \o magic2 \o zero32 \o zero32 \o zero32
        \o shl27(convertSampleRate(s.sampleRate)) \o zero32 \o zero32
        \o add32(le32(s.numSamples), rateBias(s.sampleRate))
        \o magic3 \o magic4 \o zero32

encode(s) ==
    LET b0 == encodeBands(s, 0, encodeHeader(s))
        b1 == putUint32(b0, 8, le32(Len(b0) - 48))
        b2 == putUint32(b1, 52, le32(Len(b0) - 48))
    IN  putUint32(b2, 4, ChecksumIEEE(SubSeq(b2, 9, Len(b2))))

\* what decode leaves: err is "" for nil and "panic" for a run-time panic;
\* s is the receiver afterwards
outcome(err, s) == [err |-> err, s |-> s]

RECURSIVE decodePeaks(_, _, _, _)
\* the peak loop of decode over the block's stream peakBuf
decodePeaks(s, band, peakBuf, pass) ==
    IF Len(peakBuf) = 0 THEN outcome("", s)
    ELSE LET offset == peakBuf[1]
             r1 == Tail(peakBuf)
         IN  IF offset = 255
             THEN IF Len(r1) >= 4
                  THEN decodePeaks(s, band, SubSeq(r1, 5, Len(r1)), int32(u32at(r1, 0)))
                  ELSE decodePeaks(s, band, <<>>, pass)
             ELSE LET mag == IF Len(r1) >= 2 THEN r1[1] + 256 * r1[2] ELSE 0
                      r2 == IF Len(r1) >= 2 THEN SubSeq(r1, 3, Len(r1)) ELSE <<>>
                      bin == IF Len(r2) >= 2 THEN r2[1] + 256 * r2[2] ELSE 0
                      r3 == IF Len(r2) >= 2 THEN SubSeq(r2, 3, Len(r2)) ELSE <<>>
                      peak == [pass |-> pass + offset, magnitude |-> mag, bin |-> bin]
                  IN  IF band > 4 THEN outcome("panic", s)
                      ELSE decodePeaks(
                               [s EXCEPT !.peaksByBand[band + 1] = Append(@, peak)],
                               band, r3, pass + offset)

RECURSIVE decodeBlocks(_, _)
\* the block loop of decode over the bytes after the header
decodeBlocks(s, bs) ==
    IF Len(bs) = 0 THEN outcome("", s)
    ELSE IF Len(bs) < 8 THEN outcome("panic", s)
    ELSE LET band == int32(sub32(u32at(bs, 0), bandTag(0)))
             size == int32(u32at(bs, 4))
             rest == SubSeq(bs, 9, Len(bs))
             padded == IF size % 4 # 0 THEN size + (4 - (size % 4)) ELSE size
         IN  IF size > Len(rest) \/ padded > Len(rest) THEN outcome("panic", s)
             ELSE LET r == decodePeaks(s, band, SubSeq(rest, 1, size), 0)
                  IN  IF r.err # "" THEN r
                      ELSE decodeBlocks(r.s, SubSeq(rest, padded + 1, Len(rest)))

checksumOkAlways(stored, bs) == TRUE

\* "next() != crc32.ChecksumIEEE(buf[:])": the stored word against the
\* checksum of everything after it
checksumOk(stored, bs) == stored = ChecksumIEEE(bs)

\* decode(bs) on the receiver s
decode(s, bs) ==
    LET n == Len(bs)
    IN  IF n < 4 THEN outcome("panic", s)
        ELSE IF u32at(bs, 0) # magic1 THEN outcome("bad magic1", s)
        ELSE IF n < 8 THEN outcome("panic", s)
        ELSE IF ~checksumOk(u32at(bs, 4), SubSeq(bs, 9, n)) THEN outcome("bad checksum", s)
        ELSE IF n < 48 THEN outcome("panic", s)
        ELSE IF u32at(bs, 8) # le32(n - 48) THEN outcome("bad length", s)
        ELSE IF u32at(bs, 12) # magic2 THEN outcome("bad magic2", s)
        ELSE LET s1 == [s EXCEPT !.sampleRate = convertSampleRate(shr27(u32at(bs, 28)))]
                 s2 == [s1 EXCEPT !.numSamples =
                           int32(sub32(u32at(bs, 40), rateBias(s1.sampleRate)))]
             IN  IF u32at(bs, 44) # magic3 THEN outcome("bad magic3", s2)
                 ELSE IF n < 52 THEN outcome("panic", s2)
                 ELSE IF u32at(bs, 48) # magic4 THEN outcome("bad magic4", s2)
                 ELSE IF n < 56 THEN outcome("panic", s2)
                 ELSE IF u32at(bs, 52) # le32((n - 56) + 8) THEN outcome("bad length2", s2)
                 ELSE decodeBlocks(s2, SubSeq(bs, 57, n))

(***************************************************************************)
(* The identification client: throttle and Identify                        *)
(***************************************************************************)
\* rate.Every(3*time.Second): seconds per token
Every == 3
\* the limiter's burst
Burst == 1
\* time.Sleep(3 * time.Second) after a 429
RetrySleep == 3

\* the JSON body Identify builds for one signature
reqData == "reqData"

\* rate.NewLimiter(rate.Every(3*time.Second), 1); tokens are counted in
\* seconds of credit (Every per token), and a new limiter holds its burst
newLimiter == [tokens |-> Burst * Every, last |-> 0]

\* Limiter.advance: the credit at time t, capped at the burst
tokensAt(lim, t) ==
    LET grown == lim.tokens + (t - lim.last)
    IN  IF grown > Burst * Every THEN Burst * Every ELSE grown

reserveFree(lim, t) == [lim |-> [tokens |-> 0, last |-> t], timeToAct |-> t]

\* Limiter.reserveN(t, 1): one token is taken, into debt if none is left;
\* the caller may act once the debt is paid
reserve(lim, t) ==
    LET tokens == tokensAt(lim, t) - Every
    IN  [lim |-> [tokens |-> tokens, last |-> t],
         timeToAct |-> IF tokens < 0 THEN t - tokens ELSE t]

\* a goroutine outside Identify
idleCaller == [pc |-> "idle", at |-> 0, body |-> "", made |-> 0, ret |-> ""]

driverIdle ==
    /\ params = newTrackIdentifier
    /\ results = <<>>
    /\ sample = <<>>
    /\ nextParams = <<>>
    /\ calls = 0
    /\ pc = "idle"

codecIdle ==
    /\ sig = emptySignature
    /\ buf = <<>>
    /\ blob = <<>>
    /\ out = outcome("", emptySignature)
    /\ cpc = "idle"

clientIdle ==
    /\ now = 0
    /\ rl = newLimiter
    /\ callers = [c \in Callers |-> idleCaller]
    /\ attempts = <<>>

extractIdle ==
    /\ samples = <<>>
    /\ returned = <<>>
    /\ numSpreadFFTsDone = 0

collectIdle ==
    /\ source = [rate |-> 0, offset |-> 0, duration |-> 0, frames |-> 0]
    /\ delivered = <<>>
    /\ rem = 0
    /\ mono = <<>>
    /\ kpc = "idle"

serverIdle ==
    /\ jobQueue = <<>>
    /\ jobs = <<>>
    /\ process = "running"

linkIdle == linked = <<>>

\* no message: Update has not been called
noMsg == [type |-> "", of |-> 0, at |-> 0, handled |-> FALSE]

albumIdle ==
    /\ tracks = <<>>
    /\ trackIndex = 1
    /\ merr = FALSE
    /\ msgs = EmptyBag
    /\ msg = noMsg
    /\ bb = [buf |-> FALSE, silent |-> FALSE]
    /\ apc = "running"

\* the goroutines that run boomboxChangeSpeed, one call each
Changers == {1, 2}

\* a goroutine outside boomboxChangeSpeed
idleChanger == [pc |-> "idle", speedup |-> 0]

boomIdle ==
    /\ resampleRatio = 1000
    /\ changers = [c \in Changers |-> idleChanger]

\* the URIs submitted to /identify and the job ids they hash to
URIs == {"u1", "u2", "u3"}

JobIDs == {"a1", "b2"}

\* the goroutines net/http runs handlers in
Handlers == {"h1", "h2"}

\* a goroutine between requests
idleHandler == [pc |-> "idle", uri |-> "", id |-> "", j |-> <<>>]

\* loopJobs asleep between two turns
idleWorker == [pc |-> "idle", j |-> <<>>, state |-> "", then |-> ""]

\* newServer: empty maps, an empty queue, loopJobs started
handlerIdle ==
    /\ mu = ""
    /\ jobsByID = [id \in JobIDs |-> <<>>]
    /\ jobIDQueue = <<>>
    /\ uriCache = {}
    /\ handlers = [h \in Handlers |-> idleHandler]
    /\ worker = idleWorker
    /\ enqueued = <<>>

\* no bin looked at yet
noSpectrum == [bin |-> 0, rate |-> 0, before |-> 0, peak |-> 0, after |-> 0, others |-> 0]

\* doPeakRecognition not run yet
notRecognized ==
    [by |-> "", accepted |-> FALSE, stored |-> FALSE, variation |-> 0, garbage |-> FALSE]

interpIdle ==
    /\ spectrum = noSpectrum
    /\ recognized = notRecognized

frontIdle == linkIdle /\ albumIdle /\ boomIdle /\ handlerIdle /\ interpIdle

(***************************************************************************)
(* The driver loop of server.doJob                                         *)
(***************************************************************************)
Init ==
    /\ params = newTrackIdentifier
    /\ results = <<>>
    /\ sample = <<>>
    /\ nextParams = <<>>
    /\ calls = 0
    /\ pc = "identifying"
    /\ sig = emptySignature
    /\ buf = <<>>
    /\ blob = <<>>
    /\ out = outcome("", emptySignature)
    /\ cpc = "idle"
    /\ clientIdle
    /\ extractIdle
    /\ collectIdle
    /\ serverIdle
    /\ frontIdle

this == [params |-> params, results |-> results, sample |-> sample]

\* one turn of the loop with the result res of identifyPath(path, currentParams())
Handle(res) ==
    LET r == [params |-> currentParams(params), res |-> res]
        after == handleResult(this, r)
    IN  /\ params' = after.params
        /\ results' = after.results
        /\ sample' = after.sample
        /\ nextParams' = after.nextParams
        /\ calls' = calls + 1
        /\ pc' = IF after.nextParams = <<>> THEN "done" ELSE "identifying"
        /\ UNCHANGED <<codecVars, clientVars, extractVars, collectVars, serverVars, frontVars>>

IdentifyFound ==
    /\ pc = "identifying"
    /\ calls < MaxCalls
    /\ Len(results) < MaxFound
    /\ \E tr \in Tracks :
          Handle([Found |-> TRUE, Artist |-> tr[1], Title |-> tr[2]])

IdentifyNotFound ==
    /\ pc = "identifying"
    /\ calls < MaxCalls
    /\ Handle([Found |-> FALSE, Artist |-> "", Title |-> ""])

\* identifyPath returns an error: doJob records it and returns
IdentifyError ==
    /\ pc = "identifying"
    /\ calls < MaxCalls
    /\ calls' = calls + 1
    /\ pc' = "error"
    /\ UNCHANGED <<params, results, sample, nextParams>>
    /\ UNCHANGED <<codecVars, clientVars, extractVars, collectVars, serverVars, frontVars>>

Next ==
    \/ IdentifyFound
    \/ IdentifyNotFound
    \/ IdentifyError

Spec == Init /\ [][Next]_vars

(***************************************************************************)
(* Runs of the codec: a signature is built peak by peak (as                *)
(* ComputeSignature appends them), encoded, and the bytes are decoded into *)
(* an empty Signature, as they are or with one bit flipped.                *)
(***************************************************************************)
SampleRates == {8000, 11025, 16000, 32000, 44100}

numPeaks(s) ==
    Len(s.peaksByBand[1]) + Len(s.peaksByBand[2]) + Len(s.peaksByBand[3])
        + Len(s.peaksByBand[4]) + Len(s.peaksByBand[5])

lastPass(peaks) == IF Len(peaks) = 0 THEN 0 ELSE peaks[Len(peaks)].pass

\* sig.peaksByBand[band] = append(sig.peaksByBand[band], peak)
appendPeak(s, band, peak) == [s EXCEPT !.peaksByBand[band + 1] = Append(@, peak)]

InitCodec ==
    /\ params = newTrackIdentifier
    /\ results = <<>>
    /\ sample = <<>>
    /\ nextParams = <<>>
    /\ calls = 0
    /\ pc = "idle"
    /\ \E r \in SampleRates, n \in SampleCounts :
          sig = [emptySignature EXCEPT !.sampleRate = r, !.numSamples = n]
    /\ buf = <<>>
    /\ blob = <<>>
    /\ out = outcome("", emptySignature)
    /\ cpc = "build"
    /\ clientIdle
    /\ extractIdle
    /\ collectIdle
    /\ serverIdle
    /\ frontIdle

AppendPeak ==
    /\ cpc = "build"
    /\ numPeaks(sig) < MaxPeaks
    /\ \E band \in CodecBands, v \in PeakSteps :
          sig' = appendPeak(sig, band,
                     [pass |-> lastPass(sig.peaksByBand[band + 1]) + v.gap,
                      magnitude |-> v.magnitude, bin |-> v.bin])
    /\ UNCHANGED <<buf, blob, out, cpc>>
    /\ UNCHANGED <<driverVars, clientVars, extractVars, collectVars, serverVars, frontVars>>

Encode ==
    /\ cpc = "build"
    /\ buf' = encode(sig)
    /\ cpc' = "encoded"
    /\ UNCHANGED <<sig, blob, out>>
    /\ UNCHANGED <<driverVars, clientVars, extractVars, collectVars, serverVars, frontVars>>

Decode ==
    /\ cpc = "encoded"
    /\ blob' = buf
    /\ out' = decode(emptySignature, buf)
    /\ cpc' = "decoded"
    /\ UNCHANGED <<sig, buf>>
    /\ UNCHANGED <<driverVars, clientVars, extractVars, collectVars, serverVars, frontVars>>

NextCodec ==
    \/ AppendPeak
    \/ Encode
    \/ Decode

SpecCodec == InitCodec /\ [][NextCodec]_vars

\* the byte v with bit k inverted
flipBit(v, k) ==
    LET w == 2 ^ k
    IN  IF (v \div w) % 2 = 1 THEN v - w ELSE v + w

InitFlip ==
    /\ params = newTrackIdentifier
    /\ results = <<>>
    /\ sample = <<>>
    /\ nextParams = <<>>
    /\ calls = 0
    /\ pc = "idle"
    /\ \E r \in FlipRates :
          sig = [emptySignature EXCEPT !.sampleRate = r, !.numSamples = 192000]
    /\ buf = <<>>
    /\ blob = <<>>
    /\ out = outcome("", emptySignature)
    /\ cpc = "build"
    /\ clientIdle
    /\ extractIdle
    /\ collectIdle
    /\ serverIdle
    /\ frontIdle

AppendFlipPeak ==
    /\ cpc = "build"
    /\ numPeaks(sig) < MaxFlipPeaks
    /\ \E band \in FlipBands, gap \in FlipGaps :
          sig' = appendPeak(sig, band,
                     [pass |-> lastPass(sig.peaksByBand[band + 1]) + gap,
                      magnitude |-> 255, bin |-> 640])
    /\ UNCHANGED <<buf, blob, out, cpc>>
    /\ UNCHANGED <<driverVars, clientVars, extractVars, collectVars, serverVars, frontVars>>

\* decode of the encoding with bit k of the byte at offset i - 1 flipped
DecodeFlipped ==
    /\ cpc = "encoded"
    /\ \E i \in 9..Len(buf), k \in 0..7 :
          /\ blob' = [buf EXCEPT ![i] = flipBit(@, k)]
          /\ out' = decode(emptySignature, blob')
    /\ cpc' = "flipped"
    /\ UNCHANGED <<sig, buf>>
    /\ UNCHANGED <<driverVars, clientVars, extractVars, collectVars, serverVars, frontVars>>

NextFlip ==
    \/ AppendFlipPeak
    \/ Encode
    \/ DecodeFlipped

SpecFlip == InitFlip /\ [][NextFlip]_vars

(***************************************************************************)
(* Decoding blobs that no encode call produces: the encoding of a          *)
(* signature with its rate word or its first block's tag replaced and the  *)
(* checksum word recomputed over the result.                               *)
(***************************************************************************)
\* PutUint32(buf[4:8], crc32.ChecksumIEEE(buf[8:]))
seal(bs) == putUint32(bs, 4, ChecksumIEEE(SubSeq(bs, 9, Len(bs))))

\* decode of the encoding whose word at offset 28 is code << 27
DecodeRateCode ==
    /\ cpc = "encoded"
    /\ \E code \in RateCodes :
          /\ blob' = seal(putUint32(buf, 28, shl27(code)))
          /\ out' = decode(emptySignature, blob')
    /\ cpc' = "rated"
    /\ UNCHANGED <<sig, buf>>
    /\ UNCHANGED <<driverVars, clientVars, extractVars, collectVars, serverVars, frontVars>>

\* decode of the encoding whose first block (offset 56) carries the tag word
DecodeBlockTag ==
    /\ cpc = "encoded"
    /\ Len(buf) > 56
    /\ \E tag \in BlockTags :
          /\ blob' = seal(putUint32(buf, 56, tag))
          /\ out' = decode(emptySignature, blob')
    /\ cpc' = "tagged"
    /\ UNCHANGED <<sig, buf>>
    /\ UNCHANGED <<driverVars, clientVars, extractVars, collectVars, serverVars, frontVars>>

\* the byte offsets of the header words decode compares: magic1, the
\* checksum, the length, magic2, magic3, magic4 and the second length
CheckedWords == {0, 4, 8, 12, 44, 48, 52}

\* a word that is none of the magic constants, no length and no checksum of
\* the blobs at hand
strayWord == <<1, 2, 3, 4>>

\* decode, into a new Signature, of the encoding with one of the words decode
\* compares replaced, the checksum recomputed over the result or left as
\* it was
DecodeStrayWord ==
    /\ cpc = "encoded"
    /\ \E off \in CheckedWords, sealed \in BOOLEAN :
          /\ blob' = IF sealed /\ off >= 8 THEN seal(putUint32(buf, off, strayWord))
                      ELSE putUint32(buf, off, strayWord)
          /\ out' = decode(emptySignature, blob')
    /\ cpc' = "stray"
    /\ UNCHANGED <<sig, buf>>
    /\ UNCHANGED <<driverVars, clientVars, extractVars, collectVars, serverVars, frontVars>>

NextTamper ==
    \/ AppendFlipPeak
    \/ Encode
    \/ DecodeRateCode
    \/ DecodeBlockTag
    \/ DecodeStrayWord

SpecTamper == InitFlip /\ [][NextTamper]_vars

(***************************************************************************)
(* The codec on a signature whose sampleRate is none of the five           *)
(* (ComputeSignature takes any sampleRate).                                *)
(***************************************************************************)
InitOtherRate ==
    /\ params = newTrackIdentifier
    /\ results = <<>>
    /\ sample = <<>>
    /\ nextParams = <<>>
    /\ calls = 0
    /\ pc = "idle"
    /\ \E r \in OtherRates, n \in SampleCounts :
          sig = [emptySignature EXCEPT !.sampleRate = r, !.numSamples = n]
    /\ buf = <<>>
    /\ blob = <<>>
    /\ out = outcome("", emptySignature)
    /\ cpc = "build"
    /\ clientIdle
    /\ extractIdle
    /\ collectIdle
    /\ serverIdle
    /\ frontIdle

NextOtherRate ==
    \/ AppendFlipPeak
    \/ Encode
    \/ Decode

SpecOtherRate == InitOtherRate /\ [][NextOtherRate]_vars

(***************************************************************************)
(* Goroutines calling Identify.  A goroutine moves at the blocking calls:  *)
(* rl.Wait (the reservation, then the return once the token's time has     *)
(* come), http.DefaultClient.Do and time.Sleep.  The clock ticks in whole  *)
(* seconds and nothing forces a goroutine to move as soon as it may.       *)
(***************************************************************************)
InitClient ==
    /\ driverIdle
    /\ codecIdle
    /\ clientIdle
    /\ extractIdle
    /\ collectIdle
    /\ serverIdle
    /\ frontIdle

\* Identify is entered: the request is built around a fresh reader of reqData
EnterIdentify(c) ==
    /\ callers[c].pc = "idle"
    /\ callers[c].made < MaxIdentify
    /\ callers' = [callers EXCEPT ![c] =
           [pc |-> "again", at |-> 0, body |-> reqData, made |-> @.made + 1, ret |-> ""]]
    /\ UNCHANGED <<now, rl, attempts>>

\* throttle(): rl.Wait reserves a token and blocks until its time
Throttle(c) ==
    /\ callers[c].pc = "again"
    /\ LET r == reserve(rl, now)
       IN  /\ rl' = r.lim
           /\ callers' = [callers EXCEPT ![c].pc = "wait", ![c].at = r.timeToAct]
    /\ UNCHANGED <<now, attempts>>

\* rl.Wait has returned and http.DefaultClient.Do(req) runs.  Do reads
\* req.Body to its end.  On a retry the reader is already at its end: the
\* transport either sends on a fresh connection and fails (the body is
\* shorter than ContentLength), or, on a reused connection, rewinds the
\* body with GetBody and sends it again.
Do(c) ==
    /\ callers[c].pc = "wait"
    /\ now >= callers[c].at
    /\ Len(attempts) < MaxAttempts
    /\ \E reused \in BOOLEAN, answer \in Answers :
          LET sent == IF callers[c].body = reqData \/ reused THEN reqData ELSE ""
              got == IF sent = reqData THEN answer ELSE "error"
          IN  /\ attempts' = Append(attempts,
                     [caller |-> c, at |-> now, token |-> callers[c].at,
                      body |-> sent, answer |-> got])
              /\ callers' = [callers EXCEPT ![c] =
                     IF got = "429"
                     THEN [@ EXCEPT !.pc = "sleep", !.at = now + RetrySleep, !.body = ""]
                     ELSE [@ EXCEPT !.pc = "idle", !.body = "", !.ret = got]]
    /\ UNCHANGED <<now, rl>>

\* time.Sleep(3 * time.Second) is over: goto again
Wake(c) ==
    /\ callers[c].pc = "sleep"
    /\ now >= callers[c].at
    /\ callers' = [callers EXCEPT ![c].pc = "again"]
    /\ UNCHANGED <<now, rl, attempts>>

Tick ==
    /\ now < MaxTime
    /\ now' = now + 1
    /\ UNCHANGED <<rl, callers, attempts>>

NextClient ==
    \/ \E c \in Callers : EnterIdentify(c) /\ UNCHANGED <<driverVars, codecVars, extractVars, collectVars, serverVars, frontVars>>
    \/ \E c \in Callers : Throttle(c) /\ UNCHANGED <<driverVars, codecVars, extractVars, collectVars, serverVars, frontVars>>
    \/ \E c \in Callers : Do(c) /\ UNCHANGED <<driverVars, codecVars, extractVars, collectVars, serverVars, frontVars>>
    \/ \E c \in Callers : Wake(c) /\ UNCHANGED <<driverVars, codecVars, extractVars, collectVars, serverVars, frontVars>>
    \/ Tick /\ UNCHANGED <<driverVars, codecVars, extractVars, collectVars, serverVars, frontVars>>

SpecClient == InitClient /\ [][NextClient]_vars

(***************************************************************************)
(* The server's job loop over track files: loopJobs takes the head of the  *)
(* queue and runs doJob, whose identifyPath opens the file.                *)
(***************************************************************************)
\* openStreamer(path): "fatal" where it calls log.Fatal, which ends the
\* process, "error" where it returns an error, "ok" for a decoded stream
openStreamer(file) ==
    CASE file = "missing" -> "fatal"
      [] file = "short" -> "fatal"
      [] file = "text" -> "error"
      [] file = "badwave" -> "error"
      [] OTHER -> "ok"

\* handleIdentify queues a job for a track
Enqueue ==
    /\ process = "running"
    /\ Len(jobQueue) + Len(jobs) < MaxJobs
    /\ \E file \in Files : jobQueue' = Append(jobQueue, file)
    /\ UNCHANGED <<jobs, process>>
    /\ UNCHANGED <<driverVars, codecVars, clientVars, extractVars, collectVars, frontVars>>

\* loopJobs pops the head and runs doJob up to the end of its identify loop
DoJob ==
    /\ process = "running"
    /\ jobQueue # <<>>
    /\ jobQueue' = Tail(jobQueue)
    /\ LET file == Head(jobQueue)
           opened == openStreamer(file)
       IN  IF opened = "fatal"
           THEN /\ process' = "exited"
                /\ jobs' = jobs
           ELSE /\ process' = process
                /\ \E failed \in BOOLEAN :
                      jobs' = Append(jobs,
                          [file |-> file,
                           Error |-> IF opened = "error" THEN "open"
                                     ELSE IF failed THEN "identify" ELSE ""])
    /\ UNCHANGED <<driverVars, codecVars, clientVars, extractVars, collectVars, frontVars>>

InitServer ==
    /\ driverIdle
    /\ codecIdle
    /\ clientIdle
    /\ extractIdle
    /\ collectIdle
    /\ serverIdle
    /\ frontIdle

NextServer ==
    \/ Enqueue
    \/ DoJob

SpecServer == InitServer /\ [][NextServer]_vars

(***************************************************************************)
(* CollectSample, one Stream call of the streamer at a time.  The streamer *)
(* holds source.frames frames; a Stream call hands out any number of them  *)
(* from 1 up to the length asked for, or (0, false) when none is left.     *)
(***************************************************************************)
\* the k-th frame of the streamer, left and right; their sum is even
sourceFrame(k) == <<k, k + 2 * (k % 3)>>

\* format.SampleRate.N(d) for d whole seconds
N(rate, d) == rate * d

chunkLenWhole(len, r) == len

\* "n := len(samples); if n > rem { n = rem }"
chunkLen(len, r) == IF len > r THEN r ELSE len

\* (s[0]+s[1])/2
monoOf(frame) == (frame[1] + frame[2]) \div 2

RECURSIVE streamed(_, _)
\* the frames the first i Stream calls handed out
streamed(ns, i) == IF i = 0 THEN 0 ELSE ns[i] + streamed(ns, i - 1)

\* the frames the streamer has left
left == source.frames - streamed(delivered, Len(delivered))

\* the counts s.Stream(samples[:n]) may return with ok
streamCounts(n) == 1..(IF n > left THEN left ELSE n)

InitCollect ==
    /\ driverIdle
    /\ codecIdle
    /\ clientIdle
    /\ extractIdle
    /\ \E rate \in CollectRates, offset \in CollectOffsets,
          duration \in CollectDurations, frames \in 0..MaxFrames :
          /\ source = [rate |-> rate, offset |-> offset, duration |-> duration,
                       frames |-> frames]
          /\ rem = N(rate, offset)
    /\ delivered = <<>>
    /\ mono = <<>>
    /\ kpc = "skip"
    /\ serverIdle
    /\ frontIdle

\* one pass of the first loop
SkipStream ==
    /\ kpc = "skip"
    /\ rem > 0
    /\ IF left = 0
       THEN /\ delivered' = Append(delivered, 0)
            /\ rem' = N(source.rate, source.duration)
            /\ kpc' = "collect"
       ELSE /\ \E n \in streamCounts(chunkLen(source.rate, rem)) :
                  /\ delivered' = Append(delivered, n)
                  /\ rem' = rem - n
            /\ kpc' = kpc
    /\ UNCHANGED <<source, mono>>
    /\ UNCHANGED <<driverVars, codecVars, clientVars, extractVars, serverVars, frontVars>>

\* the first loop ends with rem used up
SkipDone ==
    /\ kpc = "skip"
    /\ rem <= 0
    /\ rem' = N(source.rate, source.duration)
    /\ kpc' = "collect"
    /\ UNCHANGED <<source, delivered, mono>>
    /\ UNCHANGED <<driverVars, codecVars, clientVars, extractVars, serverVars, frontVars>>

\* one pass of the second loop
CollectStream ==
    /\ kpc = "collect"
    /\ rem > 0
    /\ IF left = 0
       THEN /\ delivered' = Append(delivered, 0)
            /\ kpc' = "returned"
            /\ UNCHANGED <<rem, mono>>
       ELSE /\ \E n \in streamCounts(chunkLen(source.rate, rem)) :
                  /\ delivered' = Append(delivered, n)
                  /\ rem' = rem - n
                  /\ mono' = mono \o
                        [i \in 1..n |->
                            monoOf(sourceFrame(streamed(delivered, Len(delivered)) + i))]
            /\ kpc' = kpc
    /\ UNCHANGED source
    /\ UNCHANGED <<driverVars, codecVars, clientVars, extractVars, serverVars, frontVars>>

\* the second loop ends with rem used up: return mono
CollectDone ==
    /\ kpc = "collect"
    /\ rem <= 0
    /\ kpc' = "returned"
    /\ UNCHANGED <<source, delivered, rem, mono>>
    /\ UNCHANGED <<driverVars, codecVars, clientVars, extractVars, serverVars, frontVars>>

NextCollect ==
    \/ SkipStream
    \/ SkipDone
    \/ CollectStream
    \/ CollectDone

SpecCollect == InitCollect /\ [][NextCollect]_vars

(***************************************************************************)
(* ComputeSignature and the caller's slice.  A float64 is kept as m * 2^e  *)
(* with m odd or zero.  What a call returns is kept as the sample rate,    *)
(* the sample count and the values the transform is fed, of which the      *)
(* peaks are a function.                                                   *)
(***************************************************************************)
\* samples per hop
HopSize == 128

RECURSIVE canon(_, _)
\* the float m * 2^e
canon(m, e) ==
    IF m = 0 THEN [m |-> 0, e |-> 0]
    ELSE IF m % 2 = 0 THEN canon(m \div 2, e + 1)
    ELSE [m |-> m, e |-> e]

\* x * 65536 (and x * 1024 * 64)
scale(x) == IF x.m = 0 THEN x ELSE [x EXCEPT !.e = @ + 16]

\* math.Round: to the nearest integer, halves away from zero
mathRound(x) ==
    IF x.e >= 0 THEN x
    ELSE LET d == 2 ^ (0 - x.e)
             a == IF x.m < 0 THEN 0 - x.m ELSE x.m
             r == (2 * a + d) \div (2 * d)
         IN  canon(IF x.m < 0 THEN 0 - r ELSE r, 0)

\* the passes of "for i := 0; i+128 < len(samples); i += 128"
hops(len) == IF len = 0 THEN 0 ELSE (len - 1) \div HopSize

\* the values the hops feed to the transform
fed(s) == [j \in 1..(HopSize * hops(Len(s))) |-> mathRound(scale(s[j]))]

\* doFFT over all hops: each hop's part of the slice is overwritten with its
\* scaled and rounded values
afterDoFFT(s) ==
    [j \in 1..Len(s) |->
        IF j <= HopSize * hops(Len(s)) THEN mathRound(scale(s[j])) ELSE s[j]]

InitSlice ==
    /\ driverIdle
    /\ codecIdle
    /\ clientIdle
    /\ \E n \in SliceLens, a \in SampleValues, b \in SampleValues :
          samples = [j \in 1..n |-> IF j % 2 = 1 THEN a ELSE b]
    /\ returned = <<>>
    /\ numSpreadFFTsDone = 0
    /\ collectIdle
    /\ serverIdle
    /\ frontIdle

\* ComputeSignature(sampleRate, samples) of shazam/signature.go
ComputeSignature ==
    /\ Len(returned) < MaxRuns
    /\ \E sampleRate \in SampleRates :
          returned' = Append(returned,
              [sampleRate |-> sampleRate, numSamples |-> Len(samples), fed |-> fed(samples)])
    /\ samples' = afterDoFFT(samples)
    /\ UNCHANGED numSpreadFFTsDone
    /\ UNCHANGED <<driverVars, codecVars, clientVars, collectVars, serverVars, frontVars>>

\* ComputeSignature(sampleRate, samples) of the revision with the ring type:
\* the hops are copied into the ring and the copy is scaled and rounded
ComputeSignatureRing ==
    /\ Len(returned) < MaxRuns
    /\ \E sampleRate \in SampleRates :
          returned' = Append(returned,
              [sampleRate |-> sampleRate, numSamples |-> Len(samples), fed |-> fed(samples)])
    /\ UNCHANGED <<samples, numSpreadFFTsDone>>
    /\ UNCHANGED <<driverVars, codecVars, clientVars, collectVars, serverVars, frontVars>>

NextSlice ==
    \/ ComputeSignature
    \/ ComputeSignatureRing

SpecSlice == InitSlice /\ [][NextSlice]_vars

(***************************************************************************)
(* The peaks ComputeSignature stores, hop by hop.  What the transform and  *)
(* the neighbour tests find at a hop is an input: a set of bins, each with *)
(* the variation of its interpolation (at most 32 either way).             *)
(***************************************************************************)
\* hops before the first recognition
WarmUp == 46

\* int(float64(bin) * (float64(sampleRate) / 2.0 / 1024.0 / 64.0)): the
\* product is exact in float64, so this is bin * sampleRate \div 131072,
\* taken in two steps to stay within 32 bits
frequencyHz(bin, sampleRate) ==
    (((bin \div 64) * sampleRate) + (((bin % 64) * sampleRate) \div 64)) \div 2048

frequencyBandNoFloor(hz) ==
    IF hz < 520 THEN 0
    ELSE IF hz < 1450 THEN 1
    ELSE IF hz < 3500 THEN 2
    ELSE IF hz <= 5500 THEN 3
    ELSE -1

\* frequencyBand(hz)
frequencyBand(hz) ==
    IF hz < 250 THEN -1
    ELSE IF hz < 520 THEN 0
    ELSE IF hz < 1450 THEN 1
    ELSE IF hz < 3500 THEN 2
    ELSE IF hz <= 5500 THEN 3
    ELSE -1

fftPassNumberEarly(done) == done - 47

\* fft_pass_number := numSpreadFFTsDone - 46
fftPassNumber(done) == done - WarmUp

RECURSIVE storePeaks(_, _, _)
\* doPeakRecognition over the bins found, in rising order of bin_position
storePeaks(s, found, pass) ==
    IF found = {} THEN s
    ELSE LET p == CHOOSE x \in found : \A y \in found : x.bin <= y.bin
             corrected == p.bin * 64 + p.variation
             band == frequencyBand(frequencyHz(corrected, s.sampleRate))
             peak == [pass |-> pass, magnitude |-> p.magnitude, bin |-> corrected]
         IN  storePeaks(IF band = -1 THEN s ELSE appendPeak(s, band, peak),
                        found \ {p}, pass)

\* the sets of finds of one hop: at most MaxPerHop bins, each found once
Finds ==
    {f \in SUBSET PeakFinds :
        /\ Cardinality(f) <= MaxPerHop
        /\ \A x \in f, y \in f : x.bin = y.bin => x = y}

InitPeaks ==
    /\ driverIdle
    /\ \E r \in SampleRates, n \in ExtractLens :
          sig = [emptySignature EXCEPT !.sampleRate = r, !.numSamples = n]
    /\ buf = <<>>
    /\ blob = <<>>
    /\ out = outcome("", emptySignature)
    /\ cpc = "extract"
    /\ clientIdle
    /\ extractIdle
    /\ collectIdle
    /\ serverIdle
    /\ frontIdle

\* one pass of the loop with doPeakRecognition run from the first hop on
HopNoWarmUp ==
    /\ cpc = "extract"
    /\ numSpreadFFTsDone * HopSize + HopSize < sig.numSamples
    /\ numSpreadFFTsDone' = numSpreadFFTsDone + 1
    /\ \E found \in Finds :
          sig' = storePeaks(sig, found, numSpreadFFTsDone)
    /\ UNCHANGED <<buf, blob, out, cpc, samples, returned>>
    /\ UNCHANGED <<driverVars, clientVars, collectVars, serverVars, frontVars>>

\* one pass of the loop: doFFT, spreadPeaks and, from the 46th hop on,
\* doPeakRecognition
Hop ==
    /\ cpc = "extract"
    /\ numSpreadFFTsDone * HopSize + HopSize < sig.numSamples
    /\ numSpreadFFTsDone' = numSpreadFFTsDone + 1
    /\ IF numSpreadFFTsDone' >= WarmUp
       THEN \E found \in Finds :
               sig' = storePeaks(sig, found, fftPassNumber(numSpreadFFTsDone'))
       ELSE sig' = sig
    /\ UNCHANGED <<buf, blob, out, cpc, samples, returned>>
    /\ UNCHANGED <<driverVars, clientVars, collectVars, serverVars, frontVars>>

\* the loop is over: return sig
ReturnSignature ==
    /\ cpc = "extract"
    /\ ~(numSpreadFFTsDone * HopSize + HopSize < sig.numSamples)
    /\ cpc' = "returned"
    /\ UNCHANGED <<sig, buf, blob, out, samples, returned, numSpreadFFTsDone>>
    /\ UNCHANGED <<driverVars, clientVars, collectVars, serverVars, frontVars>>

\* sig.encode() on the signature returned, as Identify and the tests call it
EncodeSignature ==
    /\ cpc = "returned"
    /\ blob' = encode(sig)
    /\ cpc' = "encoded"
    /\ UNCHANGED <<sig, buf, out, samples, returned, numSpreadFFTsDone>>
    /\ UNCHANGED <<driverVars, clientVars, collectVars, serverVars, frontVars>>

NextPeaks ==
    \/ Hop
    \/ ReturnSignature
    \/ EncodeSignature

SpecPeaks == InitPeaks /\ [][NextPeaks]_vars

(***************************************************************************)
(* Streaming links: shazam.Links, called by server.doJob once a sample is  *)
(* identified, and by the CLI's cmdFetchLinks                              *)
(***************************************************************************)
\* what api.song.link does with the GET
LinkAnswers == {"error", "404", "garbage", "none", "YouTube", "both"}

\* Result.AppleID of the identified sample
AppleIDs == {"", "1440833081"}

MaxLookups == 2

\* Links(appleID) when the GET is answered by answer: the map returned (<<>>
\* is nil, else <<the platforms with a URL>>) and the error ("" is nil)
Links(appleID, answer) ==
    CASE answer = "error" -> [links |-> <<>>, err |-> "get"]
      [] answer = "404" -> [links |-> <<>>, err |-> "bad status"]
      [] answer = "garbage" -> [links |-> <<>>, err |-> "decode"]
      [] answer = "none" -> [links |-> <<{}>>, err |-> ""]
      [] answer = "YouTube" -> [links |-> <<{"YouTube"}>>, err |-> ""]
      [] OTHER -> [links |-> <<{"YouTube", "Spotify"}>>, err |-> ""]

\* doJob from setState("linking") on, for a job whose sample was identified:
\* what the job holds when doJob returns
Linking ==
    /\ Len(linked) < MaxLookups
    /\ \E appleID \in AppleIDs, answer \in LinkAnswers :
          LET l == Links(appleID, answer)
          IN  linked' = Append(linked,
                  [by |-> "server", appleID |-> appleID, err |-> l.err,
                   Found |-> TRUE, Links |-> l.links, Error |-> ""])
    /\ UNCHANGED <<driverVars, codecVars, clientVars, extractVars, collectVars, serverVars, albumVars, boomVars, handlerVars, interpVars>>

\* the command cmdFetchLinks returns, and identifySingleModel.Update on the
\* message it sends: m.links and m.err afterwards
cmdFetchLinks ==
    /\ Len(linked) < MaxLookups
    /\ \E appleID \in AppleIDs, answer \in LinkAnswers :
          LET l == IF appleID = "" THEN [links |-> <<{}>>, err |-> ""]
                   ELSE Links(appleID, answer)
          IN  linked' = Append(linked,
                  [by |-> "cli", appleID |-> appleID, err |-> l.err,
                   Found |-> TRUE,
                   Links |-> IF l.err # "" THEN <<>> ELSE l.links,
                   Error |-> l.err])
    /\ UNCHANGED <<driverVars, codecVars, clientVars, extractVars, collectVars, serverVars, albumVars, boomVars, handlerVars, interpVars>>

InitLinks ==
    /\ driverIdle
    /\ codecIdle
    /\ clientIdle
    /\ extractIdle
    /\ collectIdle
    /\ serverIdle
    /\ frontIdle

NextLinks ==
    \/ Linking
    \/ cmdFetchLinks

SpecLinks == InitLinks /\ [][NextLinks]_vars

(***************************************************************************)
(* Album mode of the CLI: identifyAlbumModel.Update and the commands it    *)
(* returns.  bubbletea runs every command in a goroutine of its own and    *)
(* hands the message it returns to Update, one message at a time, in the   *)
(* order the commands finish; tea.Quit is such a command too.  trackIndex  *)
(* counts from 1 here, so tracks[trackIndex] is in range when              *)
(* 1 <= trackIndex <= Len(tracks).  The path fetched for track t is t.     *)
(***************************************************************************)
MaxTracks == 2

\* how far into its queue an identifier is followed
MaxDepth == 3

\* a command running or a message waiting for Update: its kind, the track
\* whose model started it, and the path and the probe it carries
message(type, of, path, p) == [type |-> type, of |-> of, path |-> path, params |-> p]

cmdFetchPlaylist == message("playlist", 0, 0, <<>>)

cmdFetchTrack(t) == message("track", t, t, <<>>)

\* the second half of cmdTryNextParams: identifyPath(m.id.path, p)
cmdTryNextParams(t, path, p) == message("identify", t, path, p)

\* tea.Sequence(boomboxFadeIn(path), cmdTryNextParams(currentParams()))
cmdStartIdentifying(t, path) == message("fadein", t, path, <<currentParams(newTrackIdentifier)>>)

teaQuit == message("quit", 0, 0, <<>>)

\* the bag ms and one more message
plus(ms, m) == ms (+) SetToBag({m})

\* msgs without one copy of the message m
without(m) == msgs (-) SetToBag({m})

\* the results a probe of an album track comes back with
AlbumHits == {<<"a1", "t1">>}

newIdentifyTrackModel == [status |-> "queued", id |-> <<>>]

\* identifyTrackModel.init on track t
init(ts, t) == [ts EXCEPT ![t].status = "fetching"]

\* a skip that leaves the track's status as it is
skipNoStatus(ts, t) == ts

\* identifyTrackModel.skip on track t
skip(ts, t) == [ts EXCEPT ![t].status = "skipped"]

\* the assignments of identifyTrackModel.cmdStartIdentifying on track t
startIdentifying(ts, t, path) ==
    [ts EXCEPT ![t] = [status |-> "identifying",
                       id |-> <<[path |-> path, params |-> newTrackIdentifier,
                                 results |-> <<>>, sample |-> <<>>]>>]]

\* the queue entries an identifier has left behind
depth(id) == Len(newTrackIdentifier) - Len(id.params)

\* what Update leaves behind: the model's fields, the commands it returned
\* added to ms, and the program's state
leaves(ts, ti, ms, state) == [tracks |-> ts, trackIndex |-> ti, msgs |-> ms, apc |-> state]

\* the common end of the "s" and the "done" branch: m.trackIndex++, then the
\* next track's init, or boomboxFadeOut and tea.Quit after the last track
nextTrack(ts, ms) ==
    LET ti == trackIndex + 1
    IN  IF ti <= Len(ts)
        THEN leaves(init(ts, ti), ti, plus(ms, cmdFetchTrack(ti)), "running")
        ELSE IF ~bb.silent /\ ~bb.buf
        THEN leaves(ts, ti, ms, "panic: bb.buf is nil")
        ELSE leaves(ts, ti, plus(ms, teaQuit), "running")

\* Update has run on a message of the given kind and origin
updated(type, of, did, a) ==
    /\ msg' = [type |-> type, of |-> of, at |-> trackIndex, handled |-> did]
    /\ tracks' = a.tracks
    /\ trackIndex' = a.trackIndex
    /\ msgs' = a.msgs
    /\ apc' = a.apc
    /\ UNCHANGED <<driverVars, codecVars, clientVars, extractVars, collectVars, serverVars, linkVars, boomVars, handlerVars, interpVars>>

\* case msgFetchedPlaylist, for a playlist of n entries
FetchedPlaylist ==
    /\ apc = "running"
    /\ \E m \in BagToSet(msgs), n \in 0..MaxTracks :
          /\ m.type = "playlist"
          /\ LET ts == [i \in 1..n |-> newIdentifyTrackModel]
             IN  updated("playlist", 0, TRUE,
                    IF n = 0
                    THEN leaves(ts, trackIndex, without(m), "panic: index out of range")
                    ELSE leaves(init(ts, 1), trackIndex,
                               plus(without(m), cmdFetchTrack(1)), "running"))
    /\ UNCHANGED <<merr, bb>>

\* case tea.KeyMsg "s"
KeyS ==
    /\ apc = "running"
    /\ updated("s", 0, Len(tracks) # 0 /\ trackIndex <= Len(tracks),
          IF Len(tracks) = 0 \/ trackIndex > Len(tracks)
          THEN leaves(tracks, trackIndex, msgs, "running")
          ELSE nextTrack(skip(tracks, trackIndex), msgs))
    /\ UNCHANGED <<merr, bb>>

\* case tea.KeyMsg "ctrl+c", "q"
KeyQ ==
    /\ apc = "running"
    /\ ~BagIn(teaQuit, msgs)
    /\ updated("q", 0, TRUE, leaves(tracks, trackIndex, plus(msgs, teaQuit), "running"))
    /\ UNCHANGED <<merr, bb>>

\* case msgFetchedTrack
FetchedTrack ==
    /\ apc = "running"
    /\ \E m \in BagToSet(msgs) :
          /\ m.type = "track"
          /\ updated("track", m.of, trackIndex <= Len(tracks),
                IF trackIndex > Len(tracks)
                THEN leaves(tracks, trackIndex, without(m), "panic: index out of range")
                ELSE leaves(startIdentifying(tracks, trackIndex, m.path), trackIndex,
                           plus(without(m), cmdStartIdentifying(trackIndex, m.path)),
                           "running"))
    /\ UNCHANGED <<merr, bb>>

\* the first command of cmdStartIdentifying's sequence returns: boomboxFadeIn
\* has put the track on the speaker (or failed: msgError), and the sequence
\* goes on to cmdTryNextParams, whose identifyPath reads m.id.path
FadeIn ==
    /\ apc = "running"
    /\ \E m \in BagToSet(msgs), opened \in BOOLEAN :
          /\ m.type = "fadein"
          /\ bb.silent => opened
          /\ LET probe == cmdTryNextParams(m.of, tracks[m.of].id[1].path, m.params)
             IN  msgs' = IF opened THEN plus(without(m), probe)
                         ELSE plus(plus(without(m), message("error", m.of, 0, <<>>)), probe)
          /\ bb' = IF opened /\ ~bb.silent THEN [bb EXCEPT !.buf = TRUE] ELSE bb
    /\ UNCHANGED <<tracks, trackIndex, merr, msg, apc>>
    /\ UNCHANGED <<driverVars, codecVars, clientVars, extractVars, collectVars, serverVars, linkVars, boomVars, handlerVars, interpVars>>

\* a fetch or a probe fails: its command returns msgError instead
CmdError ==
    /\ apc = "running"
    /\ \E m \in BagToSet(msgs) :
          /\ m.type \in {"playlist", "track", "identify"}
          /\ msgs' = plus(without(m), message("error", m.of, 0, <<>>))
    /\ UNCHANGED <<tracks, trackIndex, merr, msg, bb, apc>>
    /\ UNCHANGED <<driverVars, codecVars, clientVars, extractVars, collectVars, serverVars, linkVars, boomVars, handlerVars, interpVars>>

\* case msgError
MsgError ==
    /\ apc = "running"
    /\ \E m \in BagToSet(msgs) :
          /\ m.type = "error"
          /\ updated("error", m.of, TRUE,
                leaves(tracks, trackIndex, plus(without(m), teaQuit), "running"))
    /\ merr' = TRUE
    /\ UNCHANGED bb

\* case msgIdentifyResult, for the result res of the probe's identifyPath
IdentifyResult(res) ==
    /\ apc = "running"
    /\ \E m \in BagToSet(msgs) :
          /\ m.type = "identify"
          /\ LET r == [params |-> m.params[1], res |-> res]
                 t == trackIndex
             IN  IF t > Len(tracks)
                 THEN updated("identify", m.of, FALSE,
                              leaves(tracks, t, without(m), "running"))
                 ELSE IF tracks[t].id = <<>>
                 THEN updated("identify", m.of, FALSE,
                              leaves(tracks, t, without(m), "panic: id is nil"))
                 ELSE IF r.params # currentParams(tracks[t].id[1].params)
                 THEN updated("identify", m.of, FALSE,
                              leaves(tracks, t, without(m), "running"))
                 ELSE
                 /\ depth(tracks[t].id[1]) < MaxDepth
                 /\ LET id == tracks[t].id[1]
                        h == handleResult(id, r)
                        new == [path |-> id.path, params |-> h.params,
                                results |-> h.results, sample |-> h.sample]
                    IN  IF h.nextParams = <<>>
                        THEN updated("identify", m.of, TRUE,
                                 nextTrack([tracks EXCEPT ![t] = [status |-> "done", id |-> <<new>>]],
                                           without(m)))
                        ELSE updated("identify", m.of, TRUE,
                                 leaves([tracks EXCEPT ![t].id = <<new>>], t,
                                       plus(without(m),
                                              cmdTryNextParams(t, id.path, h.nextParams)),
                                       "running"))
    /\ UNCHANGED <<merr, bb>>

IdentifyResultFound ==
    \E tr \in AlbumHits : IdentifyResult([Found |-> TRUE, Artist |-> tr[1], Title |-> tr[2]])

IdentifyResultNotFound == IdentifyResult([Found |-> FALSE, Artist |-> "", Title |-> ""])

\* the tea.QuitMsg reaches the event loop
Quit ==
    /\ apc = "running"
    /\ \E m \in BagToSet(msgs) : m.type = "quit"
    /\ apc' = "quit"
    /\ UNCHANGED <<tracks, trackIndex, merr, msgs, msg, bb>>
    /\ UNCHANGED <<driverVars, codecVars, clientVars, extractVars, collectVars, serverVars, linkVars, boomVars, handlerVars, interpVars>>

\* identifyAlbumModel.Init has returned cmdFetchPlaylist
InitAlbum ==
    /\ driverIdle
    /\ codecIdle
    /\ clientIdle
    /\ extractIdle
    /\ collectIdle
    /\ serverIdle
    /\ interpIdle
    /\ linkIdle
    /\ boomIdle
    /\ handlerIdle
    /\ tracks = <<>>
    /\ trackIndex = 1
    /\ merr = FALSE
    /\ msgs = SetToBag({cmdFetchPlaylist})
    /\ msg = noMsg
    /\ bb \in [buf : {FALSE}, silent : BOOLEAN]
    /\ apc = "running"

NextAlbum ==
    \/ FetchedPlaylist
    \/ KeyS
    \/ KeyQ
    \/ FetchedTrack
    \/ FadeIn
    \/ CmdError
    \/ MsgError
    \/ IdentifyResultFound
    \/ IdentifyResultNotFound
    \/ Quit

SpecAlbum == InitAlbum /\ [][NextAlbum]_vars

\* Album mode left to run: the user presses "s" at will but not "q" or
\* ctrl+c, bubbletea delivers the message of every command that returns,
\* and every command returns.
NextAlbumPlay ==
    \/ FetchedPlaylist
    \/ KeyS
    \/ FetchedTrack
    \/ FadeIn
    \/ CmdError
    \/ MsgError
    \/ IdentifyResultFound
    \/ IdentifyResultNotFound
    \/ Quit

SpecAlbumPlay ==
    /\ InitAlbum
    /\ [][NextAlbumPlay]_vars
    /\ WF_vars(FetchedPlaylist \/ CmdError)
    /\ WF_vars(FetchedTrack \/ CmdError)
    /\ WF_vars(FadeIn)
    /\ WF_vars(MsgError)
    /\ WF_vars(IdentifyResultFound \/ IdentifyResultNotFound \/ CmdError)
    /\ WF_vars(Quit)

(***************************************************************************)
(* boomboxChangeSpeed: each cmdTryNextParams runs one in a goroutine of    *)
(* its own, next to the probe.  Ratios are in thousandths (1.20 is 1200,   *)
(* the 0.01 of the loop test is 10); the track is on the speaker (bb.buf   *)
(* is set).  One step is what a goroutine does between speaker.Lock and    *)
(* speaker.Unlock; the 100 ms sleeps are the points where others may run.  *)
(***************************************************************************)
\* the targets of the first probes, and the ratio ResampleRatio starts with
SpeedTargets == {1000, 1100, 1200, 1300}

Tolerance == 10

abs(x) == IF x < 0 THEN -x ELSE x

\* bb.buf.r.Ratio() + (speedup-bb.buf.r.Ratio())/10
towards(r, speedup) ==
    IF speedup >= r THEN r + (speedup - r) \div 10 ELSE r - (r - speedup) \div 10

\* a goroutine enters boomboxChangeSpeed(speedup)
ChangeSpeed(c) ==
    /\ changers[c].pc = "idle"
    /\ \E speedup \in SpeedTargets :
          changers' = [changers EXCEPT ![c] =
              [pc |-> IF bb.silent THEN "returned" ELSE "locking", speedup |-> speedup]]
    /\ UNCHANGED resampleRatio
    /\ UNCHANGED <<driverVars, codecVars, clientVars, extractVars, collectVars, serverVars, linkVars, albumVars, handlerVars, interpVars>>

\* with the speaker locked: one test of the loop and either one tenth of the
\* way and the sleep, or setRatio(speedup) and the return
Approach(c) ==
    /\ changers[c].pc = "locking"
    /\ IF abs(changers[c].speedup - resampleRatio) > Tolerance
       THEN /\ resampleRatio' = towards(resampleRatio, changers[c].speedup)
            /\ UNCHANGED changers
       ELSE /\ resampleRatio' = changers[c].speedup
            /\ changers' = [changers EXCEPT ![c].pc = "returned"]
    /\ UNCHANGED <<driverVars, codecVars, clientVars, extractVars, collectVars, serverVars, linkVars, albumVars, handlerVars, interpVars>>

InitBoombox ==
    /\ driverIdle
    /\ codecIdle
    /\ clientIdle
    /\ extractIdle
    /\ collectIdle
    /\ serverIdle
    /\ interpIdle
    /\ linkIdle
    /\ boomIdle
    /\ handlerIdle
    /\ tracks = <<>>
    /\ trackIndex = 1
    /\ merr = FALSE
    /\ msgs = EmptyBag
    /\ msg = noMsg
    /\ bb = [buf |-> TRUE, silent |-> FALSE]
    /\ apc = "running"

NextBoombox ==
    \/ \E c \in Changers : ChangeSpeed(c)
    \/ \E c \in Changers : Approach(c)

\* a goroutine inside boomboxChangeSpeed keeps running: the lock is free
\* whenever the others sleep
SpecBoombox ==
    /\ InitBoombox
    /\ [][NextBoombox]_vars
    /\ \A c \in Changers : WF_vars(Approach(c))

(***************************************************************************)
(* The server's handlers and its worker: handleIdentify and handleJob run  *)
(* in goroutines of net/http, loopJobs and doJob in one goroutine of their *)
(* own.  A step is what a goroutine does up to its next Lock or Unlock of  *)
(* server.mu, or one access to a job's fields outside the lock.  doJob's   *)
(* identify loop is taken by its outcome.                                  *)
(***************************************************************************)
\* jobID: the first 8 bytes of the URI's SHA-256, in hex.  A digest cut to 64
\* bits is not one-to-one: u3 is a URI whose id is that of u1.
jobID(uri) ==
    CASE uri = "u1" -> "a1"
      [] uri = "u2" -> "b2"
      [] OTHER -> "a1"

\* &identifyJob{ID: jobID, State: "queued", URI: uri}
newJob(id, uri) ==
    [ID |-> id, State |-> "queued", URI |-> uri, Error |-> "", Sample |-> [Found |-> FALSE]]

\* a job of an earlier run as newServer reads it from the log
logged(id) ==
    [ID |-> id, State |-> "done", URI |-> IF id = "a1" THEN "u1" ELSE "u2",
     Error |-> "error", Sample |-> [Found |-> FALSE]]

\* j, ok := s.jobs[jobID] with the lookup always missing
lookupMiss(id) == <<>>

\* j, ok := s.jobs[jobID]: <<>> when !ok
lookup(id) == jobsByID[id]

\* the job a goroutine's j points to
job(j) == jobsByID[j[1]][1]

\* the worker's position once log.Fatal in openStreamer has ended the process
exited == "exit: log.Fatal"

\* what a goroutine's step leaves in the server; no goroutine steps once the
\* process has exited
served(lock, js, q, cache, hs, w, enq) ==
    /\ worker.pc # exited
    /\ mu' = lock
    /\ jobsByID' = js
    /\ jobIDQueue' = q
    /\ uriCache' = cache
    /\ handlers' = hs
    /\ worker' = w
    /\ enqueued' = enq
    /\ UNCHANGED <<driverVars, codecVars, clientVars, extractVars, collectVars, serverVars, linkVars, albumVars, boomVars, interpVars>>

\* a step of handler h that touches nothing but its own position
moved(h, to) ==
    served(mu, jobsByID, jobIDQueue, uriCache, [handlers EXCEPT ![h] = to], worker, enqueued)

\* a step of the worker that touches nothing but its own position
went(to) ==
    served(mu, jobsByID, jobIDQueue, uriCache, handlers, to, enqueued)

\* handleIdentify up to s.mu.Lock()
HandleIdentify(h) ==
    /\ handlers[h].pc = "idle"
    /\ \E uri \in URIs :
          moved(h, [pc |-> "identify", uri |-> uri, id |-> jobID(uri), j |-> <<>>])

\* s.mu.Lock() of handleIdentify and of handleJob
HandlerLock(h) ==
    /\ handlers[h].pc \in {"identify", "job"}
    /\ mu = ""
    /\ served(h, jobsByID, jobIDQueue, uriCache,
              [handlers EXCEPT ![h].pc = IF handlers[h].pc = "identify"
                                         THEN "identify-locked" ELSE "job-locked"],
              worker, enqueued)

\* handleIdentify with the lock held: the lookup, the new job and its place
\* in the queue, s.mu.Unlock()
IdentifyLookup(h) ==
    /\ handlers[h].pc = "identify-locked"
    /\ LET id == handlers[h].id
           hs == [handlers EXCEPT ![h].pc = "sample", ![h].j = <<id>>]
       IN  IF lookup(id) = <<>>
           THEN served("", [jobsByID EXCEPT ![id] = <<newJob(id, handlers[h].uri)>>],
                       Append(jobIDQueue, id), uriCache, hs, worker,
                       Append(enqueued, handlers[h].uri))
           ELSE served("", jobsByID, jobIDQueue, uriCache, hs, worker, enqueued)

\* rll.SampleKnown = j.Sample.Found
ReadSample(h) ==
    /\ handlers[h].pc = "sample"
    /\ moved(h, [handlers[h] EXCEPT !.pc = "encode"])

\* handleJob up to s.mu.Lock()
HandleJob(h) ==
    /\ handlers[h].pc = "idle"
    /\ \E id \in JobIDs :
          moved(h, [pc |-> "job", uri |-> "", id |-> id, j |-> <<>>])

\* handleJob with the lock held: the lookup and s.mu.Unlock(), then the 404
JobLookup(h) ==
    /\ handlers[h].pc = "job-locked"
    /\ LET id == handlers[h].id
       IN  served("", jobsByID, jobIDQueue, uriCache,
                  [handlers EXCEPT ![h] =
                      IF lookup(id) = <<>> THEN idleHandler
                      ELSE [handlers[h] EXCEPT !.pc = "encode", !.j = <<id>>]],
                  worker, enqueued)

\* enc.Encode(j) or templJob.Execute(w, j): the job's State, Error and Sample
\* are read and the request ends
Respond(h) ==
    /\ handlers[h].pc = "encode"
    /\ moved(h, idleHandler)

\* the worker about to call setState(state), with what follows it
setState(state, then) == [worker EXCEPT !.pc = "setState", !.state = state, !.then = then]

\* s.mu.Lock() of loopJobs, of doJob's cache lookup and store, of setState
WorkerLock ==
    /\ worker.pc \in {"idle", "doJob", "cache", "setState"}
    /\ mu = ""
    /\ served("worker", jobsByID, jobIDQueue, uriCache, handlers,
              [worker EXCEPT !.pc = CASE worker.pc = "idle" -> "loop-locked"
                                      [] worker.pc = "doJob" -> "lookup-locked"
                                      [] worker.pc = "cache" -> "cache-locked"
                                      [] OTHER -> "setState-locked"],
              enqueued)

\* loopJobs taking the job queued last instead of s.jobQueue[0]
LoopPopLast ==
    /\ worker.pc = "loop-locked"
    /\ IF jobIDQueue = <<>>
       THEN served("", jobsByID, jobIDQueue, uriCache, handlers, idleWorker, enqueued)
       ELSE served("", jobsByID, SubSeq(jobIDQueue, 1, Len(jobIDQueue) - 1), uriCache,
                   handlers,
                   [worker EXCEPT !.pc = "doJob", !.j = <<jobIDQueue[Len(jobIDQueue)]>>],
                   enqueued)

\* loopJobs with the lock held: nothing queued and back to sleep, or the head
\* of the queue is taken and looked up
LoopPop ==
    /\ worker.pc = "loop-locked"
    /\ IF jobIDQueue = <<>>
       THEN served("", jobsByID, jobIDQueue, uriCache, handlers, idleWorker, enqueued)
       ELSE IF lookup(Head(jobIDQueue)) = <<>>
       THEN served(mu, jobsByID, Tail(jobIDQueue), uriCache, handlers,
                   [worker EXCEPT !.pc = "panic: unknown job in queue"], enqueued)
       ELSE served("", jobsByID, Tail(jobIDQueue), uriCache, handlers,
                   [worker EXCEPT !.pc = "doJob", !.j = <<Head(jobIDQueue)>>], enqueued)

\* uri, ok := s.uriCache[j.URI] with the lock held, s.mu.Unlock()
CacheLookup ==
    /\ worker.pc = "lookup-locked"
    /\ served("", jobsByID, jobIDQueue, uriCache, handlers,
              IF job(worker.j).URI \in uriCache
              THEN setState("fetching", "fetch")
              ELSE setState("resolving", "resolve"),
              enqueued)

\* j.State = state with the lock held, s.mu.Unlock()
SetState ==
    /\ worker.pc = "setState-locked"
    /\ served("", [jobsByID EXCEPT ![worker.j[1]][1].State = worker.state],
              jobIDQueue, uriCache, handlers,
              IF worker.then = "idle" THEN idleWorker
              ELSE [worker EXCEPT !.pc = worker.then, !.state = "", !.then = ""],
              enqueued)

\* resolveURI and the tests for local files and albums
Resolve ==
    /\ worker.pc = "resolve"
    /\ \E failed \in BOOLEAN :
          went([worker EXCEPT !.pc = IF failed THEN "write-error" ELSE "cache"])

\* s.uriCache[j.URI] = uri with the lock held, s.mu.Unlock()
CacheStore ==
    /\ worker.pc = "cache-locked"
    /\ served("", jobsByID, jobIDQueue, uriCache \cup {job(worker.j).URI}, handlers,
              setState("fetching", "fetch"), enqueued)

\* fetchTrack
Fetch ==
    /\ worker.pc = "fetch"
    /\ \E failed \in BOOLEAN :
          went(IF failed THEN [worker EXCEPT !.pc = "write-error"]
               ELSE setState("identifying", "identify"))

\* the ways doJob's identify loop ends
IdentifyEnds == {"error", "fatal", "no sample", "sample"}

\* the identify loop: an error of identifyPath, log.Fatal in the openStreamer
\* of one of its identifyPath calls (the fetched file gone or shorter than
\* the 512 sniffed bytes), the queue exhausted without a sample, or a sample
Identified ==
    /\ worker.pc = "identify"
    /\ \E ended \in IdentifyEnds :
          went(CASE ended = "error" -> [worker EXCEPT !.pc = "write-error"]
                 [] ended = "fatal" -> [worker EXCEPT !.pc = exited]
                 [] ended = "no sample" -> [worker EXCEPT !.pc = "write-not-found"]
                 [] OTHER -> setState("linking", "write-found"))

\* j.Error = err.Error() and the return, which runs the deferred setState
WriteError ==
    /\ worker.pc = "write-error"
    /\ served(mu, [jobsByID EXCEPT ![worker.j[1]][1].Error = "error"],
              jobIDQueue, uriCache, handlers, setState("done", "idle"), enqueued)

\* j.Sample = sampleEntry{...} and the return, which runs the deferred setState
WriteSample ==
    /\ worker.pc \in {"write-not-found", "write-found"}
    /\ served(mu, [jobsByID EXCEPT ![worker.j[1]][1].Sample =
                      [Found |-> worker.pc = "write-found"]],
              jobIDQueue, uriCache, handlers, setState("done", "idle"), enqueued)

\* newServer: jobs holds the jobs found in the log of earlier runs, each as
\* loopJobs wrote it after its doJob
InitHandlers ==
    /\ driverIdle
    /\ codecIdle
    /\ clientIdle
    /\ extractIdle
    /\ collectIdle
    /\ serverIdle
    /\ interpIdle
    /\ linkIdle
    /\ albumIdle
    /\ boomIdle
    /\ mu = ""
    /\ \E ids \in SUBSET JobIDs :
          jobsByID = [id \in JobIDs |-> IF id \in ids THEN <<logged(id)>> ELSE <<>>]
    /\ jobIDQueue = <<>>
    /\ uriCache = {}
    /\ handlers = [h \in Handlers |-> idleHandler]
    /\ worker = idleWorker
    /\ enqueued = <<>>

NextHandlers ==
    \/ \E h \in Handlers : HandleIdentify(h)
    \/ \E h \in Handlers : HandlerLock(h)
    \/ \E h \in Handlers : IdentifyLookup(h)
    \/ \E h \in Handlers : ReadSample(h)
    \/ \E h \in Handlers : HandleJob(h)
    \/ \E h \in Handlers : JobLookup(h)
    \/ \E h \in Handlers : Respond(h)
    \/ WorkerLock
    \/ LoopPop
    \/ CacheLookup
    \/ SetState
    \/ Resolve
    \/ CacheStore
    \/ Fetch
    \/ Identified
    \/ WriteError
    \/ WriteSample

SpecHandlers == InitHandlers /\ [][NextHandlers]_vars

\* the steps of the worker goroutine other than its Lock calls: each returns
\* when the call it stands for returns
WorkerStep ==
    \/ LoopPop
    \/ CacheLookup
    \/ SetState
    \/ Resolve
    \/ CacheStore
    \/ Fetch
    \/ Identified
    \/ WriteError
    \/ WriteSample

\* The handlers and the worker with the scheduling the runtime gives them:
\* every external call of doJob returns, a goroutine holding server.mu goes
\* on to its Unlock, and the worker's Lock succeeds in the end (sync.Mutex
\* hands the lock to a waiter of more than 1 ms).
SpecLifecycle ==
    /\ InitHandlers
    /\ [][NextHandlers]_vars
    /\ WF_vars(WorkerStep)
    /\ SF_vars(WorkerLock)
    /\ \A h \in Handlers : WF_vars(IdentifyLookup(h) \/ JobLookup(h))

(***************************************************************************)
(* doPeakRecognition at one bin.  A value of the transform is kept as its  *)
(* exponent k, standing for 2^k; a normalized magnitude is kept in         *)
(* thousandths, ln(2^k) * 1477.3 being k * 1023.986.  The values the       *)
(* neighbour tests compare with, other than the bin's two neighbours in    *)
(* its own hop, come in as their maximum.                                  *)
(***************************************************************************)
\* the values around a bin: about 1e-10 (the floor of the transform's
\* outputs), 1/128, 1/64, 1/32, 1 and 64
Exponents == {-33, -7, -6, -5, 0, 6}

InterpBins == {10, 32, 704}

InterpRates == {11025, 16000}

\* the builds whose float-to-int conversion of NaN differs: amd64 gives the
\* smallest int64, arm64 gives 0
Builds == {"amd64", "arm64"}

\* the exponent of 1.0/64
clamp == -6

maxOf(a, b) == IF a > b THEN a ELSE b

\* math.Log(max(x, 1.0/64))*1477.3 + 6144, in thousandths
normalizePeak(k) == maxOf(k, clamp) * 1023986 + 6144000

\* peak_variation_1: peak_magnitude*2.0 - peak_magnitude_before - peak_magnitude_after
peakVariation1(s) ==
    2 * normalizePeak(s.peak) - normalizePeak(s.before) - normalizePeak(s.after)

\* (peak_magnitude_after - peak_magnitude_before) * 32.0
skew32(s) == 32 * (normalizePeak(s.after) - normalizePeak(s.before))

\* int(x) of a quotient: cut towards zero
truncated(n, d) == IF n >= 0 THEN n \div d ELSE 0 - ((0 - n) \div d)

\* the tests of doPeakRecognition in shazam/signature.go: at least 1/64,
\* and above every neighbour of the spread hop, which holds the maximum of
\* the bin's own hop over three bins (offset -3 covers before, +1 after)
isPeak(s) ==
    /\ s.peak >= clamp
    /\ s.peak > s.before
    /\ s.peak > s.after
    /\ s.peak > s.others

\* the test of the revision with the ring type: above maxNeighbor
isPeakRing(s) ==
    /\ s.peak > s.before
    /\ s.peak > s.after
    /\ s.peak > s.others

\* a peak is stored when its corrected bin lies in a band
inSomeBand(bin, rate) == frequencyBand(frequencyHz(bin, rate)) # -1

\* what the recognition leaves for a find
recognition(by, accepted, stored, variation, garbage) ==
    [by |-> by, accepted |-> accepted, stored |-> stored, variation |-> variation,
     garbage |-> garbage]

\* the bin looked at and the values around it
InitInterp ==
    /\ driverIdle
    /\ codecIdle
    /\ clientIdle
    /\ extractIdle
    /\ collectIdle
    /\ serverIdle
    /\ linkIdle
    /\ albumIdle
    /\ boomIdle
    /\ handlerIdle
    /\ \E bin \in InterpBins, rate \in InterpRates,
          before \in Exponents, peak \in Exponents, after \in Exponents,
          others \in Exponents :
          spectrum = [bin |-> bin, rate |-> rate, before |-> before, peak |-> peak,
                      after |-> after, others |-> others]
    /\ recognized = notRecognized

\* the body of doPeakRecognition's loop in shazam/signature.go: the quotient
\* is taken before any test of peak_variation_1, 0/0 is NaN, and int() of
\* float64(bin_position*64) + NaN is the smallest int64 or 0 by the build,
\* either of which is below 250 Hz
Recognize ==
    /\ recognized = notRecognized
    /\ LET s == spectrum
           d == peakVariation1(s)
       IN  recognized' =
              IF ~isPeak(s) THEN recognition("signature.go", FALSE, FALSE, 0, FALSE)
              ELSE IF d < 0 THEN recognition("panic: unexpected", TRUE, FALSE, 0, FALSE)
              ELSE IF d = 0 THEN recognition("signature.go", TRUE, FALSE, 0, TRUE)
              ELSE LET v == skew32(s) \div d
                   IN  recognition("signature.go", TRUE,
                                   inSomeBand(s.bin * 64 + v, s.rate), v, FALSE)
    /\ UNCHANGED spectrum
    /\ UNCHANGED <<driverVars, codecVars, clientVars, extractVars, collectVars, serverVars, linkVars, albumVars, boomVars, handlerVars>>

\* the same in the revision with the ring type: variation is int() of the
\* quotient.  For NaN the arm64 build has 0; the amd64 build has the
\* smallest int64, and bin*sampleRate wraps: with an even rate the product
\* is that of bin*64 and the peak is stored with a bin far below zero, with
\* an odd rate the product is negative and the peak is dropped.
RecognizeRing ==
    /\ recognized = notRecognized
    /\ LET s == spectrum
           d == peakVariation1(s)
       IN  IF ~isPeakRing(s)
           THEN recognized' = recognition("part_001", FALSE, FALSE, 0, FALSE)
           ELSE IF d = 0
           THEN \E build \in Builds :
                   recognized' =
                      IF build = "arm64"
                      THEN recognition("part_001", TRUE, inSomeBand(s.bin * 64, s.rate),
                                       0, FALSE)
                      ELSE recognition("part_001", TRUE,
                                       s.rate % 2 = 0 /\ inSomeBand(s.bin * 64, s.rate),
                                       0, TRUE)
           ELSE LET v == truncated(skew32(s), d)
                IN  recognized' = recognition("part_001", TRUE,
                                      inSomeBand(s.bin * 64 + v, s.rate), v, FALSE)
    /\ UNCHANGED spectrum
    /\ UNCHANGED <<driverVars, codecVars, clientVars, extractVars, collectVars, serverVars, linkVars, albumVars, boomVars, handlerVars>>

NextInterp ==
    \/ Recognize
    \/ RecognizeRing

SpecInterp == InitInterp /\ [][NextInterp]_vars

(***************************************************************************)
(* Properties of the search driver                                         *)
(***************************************************************************)
\* the positions of the log entries whose (Artist, Title) are those of r
agreeing(log, r) ==
    {i \in 1..Len(log) : log[i].res.Artist = r.res.Artist /\ log[i].res.Title = r.res.Title}

\* some (Artist, Title) has three or more entries in the log
hasTriple(log) == \E i \in 1..Len(log) : Cardinality(agreeing(log, log[i])) >= 3

\* the position of probe p in the initial queue
queueIndex(p) == CHOOSE i \in 1..Len(newTrackIdentifier) : newTrackIdentifier[i] = p

\* the step is one turn of the loop in which handleResult ran
handled == pc = "identifying" /\ calls' = calls + 1 /\ pc' # "error"

\* C1: whenever sample is set, the log holds at least three found results
\* with the sample's (Artist, Title), and the sample is the last logged one.
AgreementRule ==
    sample # <<>> =>
        /\ Cardinality(agreeing(results, sample[1])) >= 3
        /\ results[Len(results)] = sample[1]
        /\ sample[1].res.Found

AgreementWitness ==
    /\ sample # <<>>
    /\ Len(results) = 4
    /\ Cardinality(agreeing(results, sample[1])) = 3

\* C2: a found result that is the third logged match of its (Artist, Title)
\* ends the search with sample set to that very result; while no pair has
\* three logged matches, sample stays unset.
ThirdMatchTerminates ==
    [][handled =>
        LET found == Len(results') = Len(results) + 1
            r == results'[Len(results')]
        IN  /\ (found /\ Cardinality(agreeing(results', r)) = 3) =>
                  /\ nextParams' = <<>>
                  /\ sample' = <<r>>
                  /\ r.params = params[1]
            /\ ~hasTriple(results') => sample' = <<>>]_vars

ThirdMatchWitness ==
    /\ sample # <<>>
    /\ agreeing(results, sample[1]) = {1, 3, 4}
    /\ results[1].params.ratio # results[3].params.ratio
    /\ results[3].params.ratio # results[4].params.ratio
    /\ results[1].params.ratio # results[4].params.ratio

\* C3: after a not-found result for the probe at ratio r, the probe that
\* handleResult returns (if any) has a ratio other than r.
NotFoundSkipsRatio ==
    [][(handled /\ results' = results /\ nextParams' # <<>>) =>
        nextParams'[1].ratio # params[1].ratio]_vars

\* C4: the loop makes at most 45 identifyPath calls: every call that does not
\* end the search removes at least one probe from the queue of 45.
SearchTermination ==
    /\ calls <= 45
    /\ pc = "identifying" => calls + Len(params) <= 45
    /\ pc # "identifying" => calls + Len(params) <= 46

SearchTerminationWitness ==
    /\ pc = "done"
    /\ calls >= 18

\* C5: when the result for the last remaining probe is handled and no pair
\* has three logged matches, handleResult returns nil and sample stays unset.
Exhaustion ==
    [][(handled /\ Len(params) = 1 /\ ~hasTriple(results')) =>
        /\ nextParams' = <<>>
        /\ sample' = <<>>
        /\ pc' = "done"]_vars

ExhaustionWitness ==
    /\ pc = "done"
    /\ Len(params) = 1
    /\ sample = <<>>
    /\ Len(results) >= 1

\* C6: the queue built by newTrackIdentifier is the 15 ratios in the given
\* order, each with offsets 24, 48, 72 in that order; currentParams is
\* (1.20, 24 s) and the log and the sample are empty.
InitialQueue ==
    calls = 0 =>
        /\ Len(params) = 45
        /\ \A i \in 1..45 :
              /\ params[i].ratio =
                    <<120, 130, 110, 125, 115, 140, 150, 90, 80, 160, 170, 180, 190, 200, 100>>[((i - 1) \div 3) + 1]
              /\ params[i].offset = 24 * (((i - 1) % 3) + 1)
        /\ currentParams(params) = [ratio |-> 120, offset |-> 24]
        /\ results = <<>>
        /\ sample = <<>>

InitialQueueWitness ==
    /\ calls = 0
    /\ pc = "identifying"
    /\ params[2] = [ratio |-> 120, offset |-> 48]

\* C7: the queue is never empty, and handleResult returns nil only with
\* sample set or with the queue down to its last probe and sample unset.
DriverNeverErrors ==
    /\ Len(params) >= 1
    /\ (pc = "done" /\ nextParams = <<>>) =>
          \/ sample # <<>>
          \/ Len(params) = 1 /\ sample = <<>>
    /\ pc = "identifying" /\ calls > 0 => nextParams # <<>>

DriverNeverErrorsWitness ==
    /\ pc = "done"
    /\ sample # <<>>
    /\ Len(params) > 1

\* C8: the probe handleResult returns is the new head of the queue and lies
\* strictly later in the initial queue than the probe just tried.
ProbeOrdering ==
    [][(handled /\ nextParams' # <<>>) =>
        /\ nextParams'[1] = currentParams(params')
        /\ queueIndex(nextParams'[1]) > queueIndex(currentParams(params))]_vars

ProbeOrderingWitness ==
    /\ pc = "identifying"
    /\ calls = 3
    /\ queueIndex(currentParams(params)) = 6

\* C27: a found result that does not complete a triple advances the queue by
\* exactly one probe: the probe handleResult returns is the entry that
\* immediately followed the just-tried probe, in the queue as it stood and in
\* the initial queue (the next offset of the same ratio, or the first offset
\* of the next ratio).  After the last probe of the queue nothing follows.
FoundAdvancesByOne ==
    [][(handled /\ results' # results /\ sample' = <<>> /\ Len(params) > 1) =>
        /\ nextParams' = <<params[2]>>
        /\ params' = Tail(params)
        /\ queueIndex(nextParams'[1]) = queueIndex(currentParams(params)) + 1]_vars

FoundAdvancesByOneWitness ==
    /\ pc = "identifying"
    /\ calls = 3
    /\ Len(results) = 3
    /\ sample = <<>>
    /\ nextParams = <<[ratio |-> 130, offset |-> 24]>>
    /\ queueIndex(currentParams(params)) = 4

(***************************************************************************)
(* Properties of the codec                                                 *)
(***************************************************************************)
\* C9: decoding the encoding of a valid signature into an empty Signature
\* succeeds and gives back its sampleRate, numSamples and per-band peaks.
CodecRoundTrip ==
    cpc = "decoded" =>
        /\ out.err = ""
        /\ out.s.sampleRate = sig.sampleRate
        /\ out.s.numSamples = sig.numSamples
        /\ out.s.peaksByBand = sig.peaksByBand

CodecRoundTripWitness ==
    /\ cpc = "decoded"
    /\ out.s = sig
    /\ \E b \in 1..5 :
          /\ Len(sig.peaksByBand[b]) = 2
          /\ sig.peaksByBand[b][1].pass = 254
          /\ sig.peaksByBand[b][2].pass = 509

\* C10: decode of an encoding with one bit flipped at byte offset 8 or later
\* returns the bad-checksum error.
BitFlipBadChecksum ==
    cpc = "flipped" => out.err = "bad checksum"

BitFlipWitness ==
    /\ cpc = "flipped"
    /\ Len(blob) > 56
    /\ blob[Len(blob)] # buf[Len(buf)]
    /\ out.err = "bad checksum"

\* C11: decode of a blob that is well-formed except that its rate code (the
\* word at offset 28 shifted right by 27) is not one of 1..5 returns the
\* bad-rate error; it does not succeed with an undefined sample rate.
UnknownRateIsBadRate ==
    (cpc = "rated" /\ shr27(u32at(blob, 28)) \notin 1..5) => out.err = "bad rate"

\* C12: decode of a blob with valid header, lengths and checksum whose block
\* tag lies outside 0x60030040..0x60030044 returns the bad-band error; the
\* five-band table is not indexed out of range.
UnknownTagIsBadBand ==
    (cpc = "tagged" /\ \A band \in 0..4 : u32at(blob, 56) # bandTag(band)) =>
        out.err = "bad band"

\* C13: encoding a Signature whose sampleRate is none of 8000, 11025, 16000,
\* 32000, 44100 fails: no byte blob is produced for it.
OtherRateEncodeFails ==
    (cpc \in {"encoded", "decoded"} /\ sig.sampleRate \notin SampleRates) => buf = <<>>

\* C39: a decode call that returns an error leaves the receiving Signature
\* as it was before the call: no sampleRate, numSamples or peak is written
\* on a failure path (bad magic, checksum or length).
DecodeErrorLeavesReceiver ==
    (cpc = "stray" /\ out.err \notin {"", "panic"}) => out.s = emptySignature

(***************************************************************************)
(* Properties of the identification client                                 *)
(***************************************************************************)
\* the step is a Do call of goroutine c
attempted(c) == callers[c].pc = "wait" /\ callers'[c].pc # "wait"

\* C14: a 429 answer is never returned to the caller of Identify: on 429
\* Identify sleeps 3 s and sends the identical request again, for as long as
\* the service answers 429, and it returns as soon as an attempt yields
\* another answer or a transport error.
RetryOn429 ==
    [][\A c \in Callers : attempted(c) =>
          LET a == attempts'[Len(attempts')]
          IN  /\ a.body = reqData
              /\ a.answer = "429" =>
                    /\ callers'[c].pc = "sleep"
                    /\ callers'[c].at = now + 3
              /\ a.answer # "429" =>
                    /\ callers'[c].pc = "idle"
                    /\ callers'[c].ret = a.answer
              /\ callers'[c].ret # "429"]_vars

\* C15 as stated: every attempt follows the taking of a token from the one
\* limiter, so no two attempts are sent less than 3 seconds apart.
AttemptsThreeSecondsApart ==
    \A i, j \in 1..Len(attempts) :
        i < j =>
            /\ attempts[i].token # attempts[j].token
            /\ attempts[j].at - attempts[i].at >= 3

\* C15 as amended: every attempt, first or retry, of any goroutine, follows
\* the taking of its own token from the one limiter; the tokens' times are
\* at least 3 seconds apart and no attempt is sent before its token's time.
TokensThreeSecondsApart ==
    /\ \A i \in 1..Len(attempts) : attempts[i].at >= attempts[i].token
    /\ \A i, j \in 1..Len(attempts) :
          i # j => \/ attempts[i].token - attempts[j].token >= 3
                   \/ attempts[j].token - attempts[i].token >= 3
    /\ \A c \in Callers : callers[c].pc = "wait" =>
          /\ \A i \in 1..Len(attempts) :
                \/ callers[c].at - attempts[i].token >= 3
                \/ attempts[i].token - callers[c].at >= 3
          /\ \A d \in Callers \ {c} : callers[d].pc = "wait" =>
                \/ callers[c].at - callers[d].at >= 3
                \/ callers[d].at - callers[c].at >= 3

TokensThreeSecondsApartWitness ==
    /\ Len(attempts) = 3
    /\ attempts[1].caller # attempts[2].caller
    /\ attempts[1].answer = "429"
    /\ attempts[3].caller = attempts[1].caller
    /\ attempts[2].at - attempts[1].at < 3
    /\ attempts[3].token = 6

(***************************************************************************)
(* Properties of ComputeSignature                                          *)
(***************************************************************************)
\* C16: ComputeSignature is a pure function: a call leaves the caller's
\* sample slice unchanged, and calls with the same sample rate on the same
\* samples, in any order among other calls, return equal signatures.
ComputeSignaturePure ==
    [][Len(returned') = Len(returned) + 1 =>
          /\ samples' = samples
          /\ \A i \in 1..Len(returned) :
                returned[i].sampleRate = returned'[Len(returned')].sampleRate =>
                    returned[i] = returned'[Len(returned')]]_vars

\* C17: within each band of the signature the passes of the peaks do not
\* decrease in list order, and every pass is at least 0.
PassMonotonicity ==
    cpc \in {"extract", "returned"} =>
        \A b \in 1..5 : \A i \in 1..Len(sig.peaksByBand[b]) :
            /\ sig.peaksByBand[b][i].pass >= 0
            /\ i > 1 => sig.peaksByBand[b][i - 1].pass <= sig.peaksByBand[b][i].pass

PassMonotonicityWitness ==
    /\ cpc = "returned"
    /\ \E b \in 1..5 :
          /\ Len(sig.peaksByBand[b]) = 3
          /\ sig.peaksByBand[b][1].pass = 0
          /\ sig.peaksByBand[b][2].pass = 0
          /\ sig.peaksByBand[b][3].pass = 1

\* the exact frequency bin * sampleRate / (2 * 1024 * 64) is a whole number
wholeHz(bin, sampleRate) ==
    (((((bin \div 64) * sampleRate) % 2048) * 64) + ((bin % 64) * sampleRate)) % 131072 = 0

\* the exact frequency of the bin lies in the interval of the band
inBand(band, bin, sampleRate) ==
    LET hz == frequencyHz(bin, sampleRate)
    IN  CASE band = 0 -> 250 <= hz /\ hz < 520
          [] band = 1 -> 520 <= hz /\ hz < 1450
          [] band = 2 -> 1450 <= hz /\ hz < 3500
          [] band = 3 -> 3500 <= hz /\ (hz < 5500 \/ (hz = 5500 /\ wholeHz(bin, sampleRate)))
          [] OTHER -> FALSE

wholeHzInBand(band, hz) ==
    CASE band = 0 -> 250 <= hz /\ hz < 520
      [] band = 1 -> 520 <= hz /\ hz < 1450
      [] band = 2 -> 1450 <= hz /\ hz < 3500
      [] band = 3 -> 3500 <= hz /\ hz <= 5500
      [] OTHER -> FALSE

collectable ==
    LET after == source.frames - source.rate * source.offset
        room == IF after > 0 THEN after ELSE 0
    IN  IF source.rate * source.duration < room THEN source.rate * source.duration ELSE room

\* C19: CollectSample does not fail and, however the source cuts its output
\* into chunks, returns exactly min(rate*duration, max(0, available -
\* rate*offset)) mono values: the first rate*offset frames are dropped and
\* each value is (left+right)/2 of the frame that follows in turn.
CollectSampleExact ==
    kpc = "returned" =>
        /\ Len(mono) = collectable
        /\ \A i \in 1..Len(mono) :
              LET frame == sourceFrame(source.rate * source.offset + i)
              IN  2 * mono[i] = frame[1] + frame[2]

CollectSampleWitness ==
    /\ kpc = "returned"
    /\ source = [rate |-> 3, offset |-> 1, duration |-> 2, frames |-> 5]
    /\ delivered = <<1, 2, 1, 1, 0>>
    /\ mono = <<5, 7>>

(***************************************************************************)
(* Properties of the job loop                                              *)
(***************************************************************************)
\* C20: a failure to open or sniff the track file (missing or unreadable,
\* shorter than the 512 sniffed bytes, of an unsupported type) reaches the
\* caller of identifyPath as an error value: the job's Error records it, the
\* server goes on to later jobs and the process never ends.
OpenFailureIsError ==
    /\ process = "running"
    /\ \A i \in 1..Len(jobs) :
          jobs[i].file \in {"missing", "short", "text"} => jobs[i].Error = "open"

(***************************************************************************)
(* Properties of the link lookups                                          *)
(***************************************************************************)
\* C21: an error from the links client is surfaced: whenever Links fails for
\* an identified sample the lookup ends with the failure reported (the job's
\* Error in the server, the model's err in the CLI), never as a success
\* without links.
LinksFailureSurfaced ==
    \A i \in 1..Len(linked) : linked[i].err # "" => linked[i].Error # ""

(***************************************************************************)
(* Properties of album mode                                                *)
(***************************************************************************)
\* C23: an identify result that arrives for a track the user has already
\* skipped is discarded: Update does not pass it to handleResult of another
\* track's identifier, and handling it does not dereference the nil
\* identifier of a track that is still fetching.
SkippedResultDiscarded ==
    (msg.type = "identify" /\ msg.of # msg.at /\ tracks[msg.of].status = "skipped") =>
        (~msg.handled /\ apc # "panic: id is nil")

\* C24: a fetched-track message is applied only to the track whose fetch
\* produced it: the identifier of a track, and every probe started for it,
\* carries that track's own path, never the late path of a skipped track.
FetchedTrackOwnPath ==
    /\ \A t \in 1..Len(tracks) : tracks[t].id # <<>> => tracks[t].id[1].path = t
    /\ \A m \in BagToSet(msgs) : m.type \in {"fadein", "identify"} => m.path = m.of

\* C25: every access tracks[trackIndex] happens with the index in range, for
\* every ordering of key presses and playlist, fetch and identify messages,
\* an empty playlist and messages after the last track included.
TrackIndexInRange == apc # "panic: index out of range"

\* the probes started and not yet handled by Update
outstanding == {m \in BagToSet(msgs) : m.type = "identify"}

\* C26: at most one identify call is outstanding at any time: no probe is
\* started before the previous probe's result was handled, and none of one
\* track while a probe of another track is outstanding.
OneProbeOutstanding ==
    \A m, n \in outstanding : m = n /\ CopiesIn(m, msgs) = 1

(***************************************************************************)
(* Properties of the boombox                                               *)
(***************************************************************************)
\* C28: every call boomboxChangeSpeed(s) terminates, and leaves the playback
\* ratio equal to s when it returns, also while a second call with another
\* target is running.
ChangeSpeedTerminates ==
    /\ \A c \in Changers : changers[c].pc = "locking" ~> changers[c].pc = "returned"
    /\ [][\A c \in Changers :
            (changers[c].pc = "locking" /\ changers'[c].pc = "returned") =>
                resampleRatio' = changers[c].speedup]_vars

(***************************************************************************)
(* Properties of the server's handlers and worker                          *)
(***************************************************************************)
\* handler h is at a read of its job's State, Error or Sample
reading(h) == handlers[h].pc \in {"sample", "encode"}

\* the worker is at a write of its job's State, Error or Sample
writing == worker.pc \in {"setState-locked", "write-error", "write-not-found", "write-found"}

\* C29: job data is race-free: every read of a job's State, Error and Sample
\* by a handler and every write of them by doJob happens with server.mu
\* held, so no handler is at a read of a job while the worker is at a write
\* of the same job.
JobDataRaceFree ==
    /\ \A h \in Handlers : reading(h) => mu = h
    /\ writing => mu = "worker"
    /\ \A h \in Handlers : ~(reading(h) /\ writing /\ handlers[h].j = worker.j)

\* handler h is at the lookup of handleIdentify and finds a job for its id
resubmitted(h) == handlers[h].pc = "identify-locked" /\ lookup(handlers[h].id) # <<>>

\* C30: under every interleaving of /identify requests and the worker loop
\* every id in jobQueue is a key of jobs, no id is in jobQueue twice and no
\* URI is enqueued twice in the server's lifetime; a request for a URI whose
\* job exists, in whatever state, gets that job and enqueues nothing.
QueueInvariant ==
    /\ [](/\ \A i \in 1..Len(jobIDQueue) : jobsByID[jobIDQueue[i]] # <<>>
          /\ \A i, k \in 1..Len(jobIDQueue) : jobIDQueue[i] = jobIDQueue[k] => i = k
          /\ \A i, k \in 1..Len(enqueued) : enqueued[i] = enqueued[k] => i = k
          /\ \A h \in Handlers :
                handlers[h].j # <<>> /\ handlers[h].uri # "" =>
                    /\ jobsByID[handlers[h].j[1]] # <<>>
                    /\ job(handlers[h].j).ID = jobID(handlers[h].uri))
    /\ [][\A h \in Handlers :
            (resubmitted(h) /\ handlers'[h].pc = "sample") =>
                /\ jobIDQueue' = jobIDQueue
                /\ enqueued' = enqueued
                /\ jobsByID' = jobsByID
                /\ handlers'[h].j = <<handlers[h].id>>]_vars

QueueInvariantWitness ==
    /\ enqueued = <<"u1", "u2">>
    /\ jobIDQueue = <<"b2">>
    /\ job(<<"a1">>).State = "done"
    /\ job(<<"a1">>).Error # ""
    /\ handlers["h1"].pc = "sample"
    /\ handlers["h1"].uri = "u1"
    /\ handlers["h2"].pc = "identify"
    /\ handlers["h2"].uri = "u2"

\* the changes of a job's State the lifecycle allows
Forward ==
    {<<"queued", "resolving">>, <<"queued", "fetching">>, <<"resolving", "fetching">>,
     <<"fetching", "identifying">>, <<"identifying", "linking">>,
     <<"queued", "done">>, <<"resolving", "done">>, <<"fetching", "done">>,
     <<"identifying", "done">>, <<"linking", "done">>}

\* the State of the job of an id, "" while the id has no job
stateOf(id) == IF jobsByID[id] = <<>> THEN "" ELSE job(<<id>>).State

\* C31: a job's State only moves forward through queued, resolving,
\* fetching, identifying, linking, done (resolving skipped on a cache hit,
\* linking when no sample was found); once done it never changes; and every
\* job taken from the queue reaches done when its external calls return, on
\* every error path too.
JobLifecycle ==
    /\ [][\A id \in JobIDs :
            (stateOf(id) # "" /\ stateOf(id)' # stateOf(id)) =>
                <<stateOf(id), stateOf(id)'>> \in Forward]_vars
    /\ \A id \in JobIDs :
          (worker.pc = "doJob" /\ worker.j = <<id>>) ~> (stateOf(id) = "done")

\* the jobs the worker is busy with: neither waiting in the queue nor done
busy == {id \in JobIDs : stateOf(id) \notin {"", "queued", "done"}}

\* C32: the server processes jobs one at a time in the order of their first
\* submission: a job has left the queued state only if every job submitted
\* before it is done, and never are two jobs in a state other than queued
\* or done.
OneJobAtATime ==
    /\ \A i, k \in 1..Len(enqueued) :
          (i < k /\ stateOf(jobID(enqueued[k])) # "queued") =>
              stateOf(jobID(enqueued[i])) = "done"
    /\ Cardinality(busy) <= 1

OneJobAtATimeWitness ==
    /\ enqueued = <<"u2", "u1">>
    /\ stateOf("b2") = "done"
    /\ stateOf("a1") = "identifying"

\* a fetch or a probe has returned an error
errored == merr \/ \E m \in BagToSet(msgs) : m.type = "error"

\* an identifier has been followed as far as MaxDepth
capped == \E t \in 1..Len(tracks) : tracks[t].id # <<>> /\ depth(tracks[t].id[1]) >= MaxDepth

\* every track is done or skipped, trackIndex is past the last and tea.Quit
\* has been returned
finished ==
    /\ trackIndex = Len(tracks) + 1
    /\ \A t \in 1..Len(tracks) : tracks[t].status \in {"done", "skipped"}
    /\ apc = "quit" \/ BagIn(teaQuit, msgs)

\* C33: once a non-empty playlist has been fetched and no fetch and no
\* probe returns an error, then, with or without presses of "s", trackIndex
\* reaches len(tracks), every track is done or skipped and the program
\* issues quit.
AlbumFinishes == (Len(tracks) > 0) ~> (finished \/ errored \/ capped)

\* C34: once the playlist is fetched, every track before trackIndex is done
\* or skipped and keeps its status for good, every track after trackIndex
\* is queued, the track at trackIndex (if there is one) is fetching or
\* identifying, and trackIndex only grows, by one for each track that is
\* finished or skipped.
AlbumStatus ==
    /\ [](\A t \in 1..Len(tracks) :
            /\ t < trackIndex => tracks[t].status \in {"done", "skipped"}
            /\ t = trackIndex => tracks[t].status \in {"fetching", "identifying"}
            /\ t > trackIndex => tracks[t].status = "queued")
    /\ [][/\ trackIndex' \in {trackIndex, trackIndex + 1}
          /\ trackIndex' = trackIndex + 1 =>
                /\ trackIndex <= Len(tracks)
                /\ tracks[trackIndex].status \in {"fetching", "identifying"}
                /\ tracks'[trackIndex].status \in {"done", "skipped"}
          /\ \A t \in 1..Len(tracks) :
                t < trackIndex => tracks'[t].status = tracks[t].status]_vars

AlbumStatusWitness ==
    /\ Len(tracks) = 2
    /\ trackIndex = 2
    /\ tracks[1].status = "skipped"
    /\ tracks[2].status = "identifying"
    /\ msg.type = "track"
    /\ msg.of = 1

\* the signature holds no peak
noPeaks(s) == \A b \in 1..5 : s.peaksByBand[b] = <<>>

\* C35: ComputeSignature processes every complete hop of 128 samples: for
\* n samples it makes exactly floor(n/128) passes, and an input shorter
\* than one hop gives a signature without peaks whose numSamples is n.
EveryHopProcessed ==
    cpc = "returned" =>
        /\ numSpreadFFTsDone = sig.numSamples \div HopSize
        /\ sig.numSamples < HopSize => noPeaks(sig)

\* the header-only encoding of a signature of the given rate and length
headerOnly(sampleRate, n) ==
    encode([emptySignature EXCEPT !.sampleRate = sampleRate, !.numSamples = n])

\* C36: for every input of fewer than 46 complete hops (n < 46 * 128),
\* whatever its samples, the signature returned has all five bands empty
\* and its encoding is the header-only blob of 56 bytes that sampleRate and
\* n alone determine.
ShortInputHeaderOnly ==
    (cpc \in {"returned", "encoded"} /\ sig.numSamples < WarmUp * HopSize) =>
        /\ noPeaks(sig)
        /\ cpc = "encoded" =>
              /\ Len(blob) = 56
              /\ blob = headerOnly(sig.sampleRate, sig.numSamples)
              /\ u32at(blob, 8) = le32(8)
              /\ u32at(blob, 52) = le32(8)

ShortInputHeaderOnlyWitness ==
    /\ cpc = "encoded"
    /\ sig.numSamples = 5887
    /\ numSpreadFFTsDone = 45
    /\ sig.sampleRate = 16000
    /\ Len(blob) = 56

RECURSIVE streamOf(_, _, _)
\* the stream of a band as the format lays it down for the peaks from i on,
\* last being the pass of the peak before: a gap of 255 or more is written
\* as 0xFF, the absolute pass and the delta 0, a smaller gap as the delta
streamOf(peaks, i, last) ==
    IF i > Len(peaks) THEN <<>>
    ELSE LET gap == peaks[i].pass - last
             delta == IF gap >= 255 THEN 0 ELSE gap
         IN  (IF gap >= 255 THEN <<255>> \o le32(peaks[i].pass) ELSE <<>>)
                 \o <<delta>> \o le16(peaks[i].magnitude) \o le16(peaks[i].bin)
                 \o streamOf(peaks, i + 1, peaks[i].pass)

RECURSIVE blocksOf(_, _)
\* the blocks of the bands from band on, each with its tag, its size and
\* its stream padded to whole words
blocksOf(s, band) ==
    IF band > 4 THEN <<>>
    ELSE LET st == streamOf(s.peaksByBand[band + 1], 1, 0)
         IN  (IF st = <<>> THEN <<>> ELSE bandTag(band) \o le32(Len(st)) \o pad4(st))
                 \o blocksOf(s, band + 1)

\* the passes of every band do not decrease
nonDecreasing(s) ==
    \A b \in 1..5 : \A i \in 2..Len(s.peaksByBand[b]) :
        s.peaksByBand[b][i - 1].pass <= s.peaksByBand[b][i].pass

\* C37: for bands whose passes do not decrease every delta byte encode
\* writes is in 0..254: a gap of 255 or more is written as the 0xFF marker,
\* the absolute 32-bit pass and the delta 0, so that no delta can be taken
\* for the marker by the decoder.
DeltaNeverMarker ==
    (cpc = "encoded" /\ nonDecreasing(sig)) =>
        SubSeq(buf, 57, Len(buf)) = blocksOf(sig, 0)

DeltaNeverMarkerWitness ==
    /\ cpc = "encoded"
    /\ Len(sig.peaksByBand[1]) = 2
    /\ sig.peaksByBand[1][1].pass = 254
    /\ sig.peaksByBand[1][2].pass = 509
    /\ buf[65] = 254
    /\ SubSeq(buf, 70, 74) = <<255>> \o le32(509)
    /\ buf[75] = 0

(***************************************************************************)
(* Properties of the peak interpolation                                    *)
(***************************************************************************)
\* C38: for every bin accepted as a peak the divide of the interpolation
\* is guarded: the denominator 2*Mpeak - Mafter - Mbefore is never
\* negative, and when it is zero (peak and both neighbours at or below the
\* 1/64 clamp) the variation is taken as zero: the peak is stored at
\* bin*64 exactly when that lies in a band.
InterpolationGuarded ==
    recognized.accepted =>
        /\ peakVariation1(spectrum) >= 0
        /\ recognized.by # "panic: unexpected"
        /\ peakVariation1(spectrum) = 0 =>
              /\ ~recognized.garbage
              /\ recognized.variation = 0
              /\ recognized.stored = inSomeBand(spectrum.bin * 64, spectrum.rate)

====
